---- MODULE Spec2Model ----
(***************************************************************************)
(* Model of the header-only distance library metric.h: distance values     *)
(* tagged with a compile-time ratio, distance_cast, and the cross-unit     *)
(* relational and arithmetic operators.                                    *)
(*                                                                         *)
(* A distance is a record [repr, num, den, count, ub]: repr names the      *)
(* representation type, num/den are Ratio::num and Ratio::den (std::ratio  *)
(* keeps them in lowest terms), count is the stored count_, and ub is set  *)
(* when the evaluation that produced the value executed undefined          *)
(* behaviour (signed overflow, division by zero).                          *)
(***************************************************************************)
EXTENDS Integers, Sequences, FiniteSets, TLC

\* ------------------------------------------------------------------------
\* Bounds of the model
\* ------------------------------------------------------------------------

\* Width in bits of `int` (scaled down from 32).
IntBits == 8

\* Width in bits of intmax_t and unsigned long long (scaled down from 64).
MaxBits == 14

\* Largest small count drawn for an operand.
MaxCount == 6

\* Largest small scalar drawn for a scalar operand.
MaxScalar == 3

\* Longest sequence of increments and decrements applied to one distance.
MaxSteps == 4

\* Longest sequence of compound assignments applied to one distance.
MaxAssigns == 2

\* Float counts 0 .. MaxFloatCount.
MaxFloatCount == 12

\* ------------------------------------------------------------------------
\* Representation types
\* ------------------------------------------------------------------------

Pow2(n) == 2 ^ n

\* std::is_signed for the integer representations of the model.
IsSigned(r) == r \in {"int", "intmax", "schar"}

\* signed char is as wide as the narrow int of the model.
Bits(r) == IF r \in {"int", "schar"} THEN IntBits ELSE MaxBits

MinOf(r) == IF IsSigned(r) THEN 0 - Pow2(Bits(r) - 1) ELSE 0

MaxOf(r) == IF IsSigned(r) THEN Pow2(Bits(r) - 1) - 1 ELSE Pow2(Bits(r)) - 1

InRange(r, v) == MinOf(r) <= v /\ v <= MaxOf(r)

\* std::is_floating_point
IsFloat(r) == r = "float"

\* Conversion rank of the arithmetic types: int < intmax_t < unsigned long long,
\* and a floating-point type above every integer type.
Rank(r) ==
  CASE r = "int" -> 1 [] r = "intmax" -> 2 [] r = "ull" -> 3 [] r = "float" -> 4

\* std::common_type<R1, R2> for arithmetic types (usual arithmetic conversions).
common_repr(r1, r2) == IF Rank(r1) >= Rank(r2) THEN r1 ELSE r2

\* Value v converted to type r. To an integer type: modulo 2^w, two's
\* complement if signed. A float converted to float is unchanged (the model
\* converts no integer to float and no float to an integer).
static_cast(r, v) ==
  IF IsFloat(r) THEN v
  ELSE LET m == v % Pow2(Bits(r))
       IN  IF IsSigned(r) /\ m >= Pow2(Bits(r) - 1) THEN m - Pow2(Bits(r)) ELSE m

\* Arithmetic that saturates at the ends of the range of r.
ArithSaturating(r, v) ==
  [v |-> IF v > MaxOf(r) THEN MaxOf(r) ELSE IF v < MinOf(r) THEN MinOf(r) ELSE v,
   ub |-> FALSE]

\* Result of an arithmetic expression of type r whose mathematical value is v:
\* unsigned arithmetic wraps, signed overflow is undefined behaviour.
Arith(r, v) == [v |-> static_cast(r, v), ub |-> IsSigned(r) /\ ~InRange(r, v)]

\* C++ integer division and remainder truncate toward zero.
Abs(x) == IF x < 0 THEN 0 - x ELSE x

TruncDiv(x, y) ==
  IF (x < 0) = (y < 0) THEN Abs(x) \div Abs(y) ELSE 0 - (Abs(x) \div Abs(y))

\* A remainder that takes the sign of the divisor (floored division).
FlooredRem(x, y) == IF y > 0 THEN x % y ELSE 0 - ((0 - x) % (0 - y))

TruncRem(x, y) == x - y * TruncDiv(x, y)

\* A quotient that intercepts a zero divisor and yields zero.
QuotGuarded(r, x, y) ==
  IF y = 0 THEN [v |-> 0, ub |-> FALSE] ELSE Arith(r, TruncDiv(x, y))

\* x / y evaluated in type r; a zero divisor is undefined behaviour.
Quot(r, x, y) ==
  IF y = 0 THEN [v |-> 0, ub |-> TRUE] ELSE Arith(r, TruncDiv(x, y))

\* x % y evaluated in type r; a zero divisor is undefined behaviour.
Rem(r, x, y) ==
  IF y = 0 THEN [v |-> 0, ub |-> TRUE]
  ELSE [v |-> static_cast(r, TruncRem(x, y)),
        ub |-> IsSigned(r) /\ ~InRange(r, TruncDiv(x, y))]

\* ------------------------------------------------------------------------
\* float: IEEE 754 binary32 values, rounded to nearest, ties to even
\* ------------------------------------------------------------------------

\* A float is <<m, e>>, the value m * 2^e, with 2^23 <= m < 2^24, or <<0, 0>>.
\* The floats of the model are not negative and stay far from the ends of the
\* exponent range, so no operation overflows or underflows.

\* std::numeric_limits<float>::digits
FloatDigits == 24

\* Products are formed in two limbs of LimbBits bits to stay within 32 bits.
LimbBits == FloatDigits \div 2

RECURSIVE BitLen(_)
BitLen(n) == IF n = 0 THEN 0 ELSE 1 + BitLen(n \div 2)

RECURSIVE FNorm(_, _)
FNorm(m, e) ==
  IF m = 0 THEN <<0, 0>>
  ELSE IF m < Pow2(FloatDigits - 1) THEN FNorm(2 * m, e - 1)
  ELSE IF m >= Pow2(FloatDigits) THEN FNorm(m \div 2, e + 1)
  ELSE <<m, e>>

\* The float of a non-negative integer below 2^24 (exactly representable).
FromInt(n) == FNorm(n, 0)

\* q, the quotient of a value by 2^s with remainder rem out of 2 * half = 2^s,
\* rounded to nearest, ties to even.
RoundNearestEven(q, rem, half) ==
  IF rem > half \/ (rem = half /\ q % 2 = 1) THEN q + 1 ELSE q

\* x * k rounded to float, for a float x and an integer 0 <= k < 2^13.
FMulInt(x, k) ==
  IF x[1] = 0 \/ k = 0 THEN <<0, 0>>
  ELSE LET limb == Pow2(LimbBits)
           lo   == (x[1] % limb) * k
           hi   == (x[1] \div limb) * k + lo \div limb
           low  == lo % limb
           \* the product is hi * 2^12 + low; s bits are rounded away
           s    == BitLen(hi) + LimbBits - FloatDigits
           q    == IF s <= LimbBits
                     THEN hi * Pow2(LimbBits - s) + low \div Pow2(s)
                     ELSE hi \div Pow2(s - LimbBits)
           rem  == IF s <= LimbBits
                     THEN low % Pow2(s)
                     ELSE (hi % Pow2(s - LimbBits)) * limb + low
       IN  IF s = 0 THEN <<q, x[2]>>
           ELSE FNorm(RoundNearestEven(q, 2 * rem, Pow2(s)), x[2] + s)

\* t more bits of the binary long division of a value by k, from quotient q
\* and remainder r.
RECURSIVE DivSteps(_, _, _, _)
DivSteps(q, r, k, t) ==
  IF t = 0 THEN <<q, r>>
  ELSE IF 2 * r >= k THEN DivSteps(2 * q + 1, 2 * r - k, k, t - 1)
  ELSE DivSteps(2 * q, 2 * r, k, t - 1)

\* x / k rounded to float, for a float x and an integer 1 <= k < 2^13.
FDivInt(x, k) ==
  IF x[1] = 0 THEN <<0, 0>>
  ELSE LET t  == BitLen(k)
           qr == DivSteps(x[1] \div k, x[1] % k, k, t)
           q  == qr[1]
           r  == qr[2]
       IN  IF q >= Pow2(FloatDigits)
             \* 25 bits: the last bit and the remainder are rounded away
             THEN FNorm(RoundNearestEven(q \div 2,
                                         2 * (q % 2) + (IF r = 0 THEN 0 ELSE 1), 2),
                        x[2] - t + 1)
           ELSE FNorm(RoundNearestEven(q, 2 * r, k), x[2] - t)

\* x < y for floats.
FLess(x, y) ==
  IF y[1] = 0 THEN FALSE
  ELSE IF x[1] = 0 THEN TRUE
  ELSE x[2] < y[2] \/ (x[2] = y[2] /\ x[1] < y[1])

\* The bits a 32-bit integer has beyond a float's significand.
GuardBits == 31 - FloatDigits

\* The integer n (with something more behind it when sticky is 1) times 2^e,
\* rounded to float.
FRound(n, sticky, e) ==
  LET s == BitLen(n) - FloatDigits
  IN  IF s <= 0 THEN FNorm(n, e)
      ELSE FNorm(RoundNearestEven(n \div Pow2(s), 2 * (n % Pow2(s)) + sticky, Pow2(s)),
                 e + s)

\* x - y rounded to float, for floats x >= y. The smaller operand is aligned
\* to GuardBits bits below the larger one's last bit; what lies below that is
\* kept as one sticky bit.
FSub(x, y) ==
  IF y[1] = 0 THEN x
  ELSE IF x = y THEN <<0, 0>>
  ELSE LET d == x[2] - y[2]
           sh == d - GuardBits
           yq == IF sh >= FloatDigits THEN 0 ELSE y[1] \div Pow2(sh)
           sticky == IF sh >= FloatDigits \/ y[1] % Pow2(sh) # 0 THEN 1 ELSE 0
       IN  IF d <= GuardBits THEN FRound(x[1] * Pow2(d) - y[1], 0, y[2])
           ELSE FRound(x[1] * Pow2(GuardBits) - yq - sticky, sticky, x[2] - GuardBits)

\* std::numeric_limits<float>::epsilon(), 2^-23
epsilon == <<Pow2(FloatDigits - 1), 0 - 2 * (FloatDigits - 1)>>

\* ------------------------------------------------------------------------
\* Ratios (std::ratio)
\* ------------------------------------------------------------------------

RECURSIVE GCD(_, _)
GCD(a, b) == IF b = 0 THEN a ELSE GCD(b, a % b)

LCM(a, b) == (a \div GCD(a, b)) * b

\* std::ratio<N, D>: num and den are kept in lowest terms.
ratio(n, d) == [num |-> n \div GCD(n, d), den |-> d \div GCD(n, d)]

\* std::ratio_divide<R1, R2>::type
ratio_divide(r1, r2) == ratio(r1.num * r2.den, r1.den * r2.num)

\* A common scale built with the greatest common divisor of the denominators too.
ratio_gcd_of_both(r1, r2) == ratio(GCD(r1.num, r2.num), GCD(r1.den, r2.den))

\* __ratio_gcd<R1, R2>::type
ratio_gcd(r1, r2) == ratio(GCD(r1.num, r2.num), LCM(r1.den, r2.den))

\* ------------------------------------------------------------------------
\* distance
\* ------------------------------------------------------------------------

\* A distance type distance<Repr, Ratio>.
DType(r, q) == [repr |-> r, num |-> q.num, den |-> q.den]

TypeOf(d) == [repr |-> d.repr, num |-> d.num, den |-> d.den]

RatioOf(t) == [num |-> t.num, den |-> t.den]

\* distance<Repr, Ratio>::distance(c): count_(c), converted to Repr.
distance(t, c) ==
  [repr |-> t.repr, num |-> t.num, den |-> t.den,
   count |-> static_cast(t.repr, c), ub |-> FALSE]

\* distance::count()
count(d) == d.count

\* std::is_convertible<From, To> for the types of the model: the arithmetic
\* types convert to each other, a pointer converts to none of them.
is_convertible(From, To) == From # "pointer" /\ To # "pointer"

\* A float converted to integer type r: the fraction is discarded, and the
\* conversion is undefined when the integral part is not representable.
FloatToInt(r, x) ==
  LET i == IF x[2] >= 0 THEN x[1] * Pow2(x[2])
           ELSE IF 0 - x[2] >= FloatDigits THEN 0
           ELSE x[1] \div Pow2(0 - x[2])
  IN  [v |-> static_cast(r, i), ub |-> ~InRange(r, i)]

\* The implicit conversion of the value v of type From to the type To.
\* (The model converts only non-negative integers to float.)
Convert(To, From, v) ==
  IF IsFloat(To) /\ IsFloat(From) THEN [v |-> v, ub |-> FALSE]
  ELSE IF IsFloat(To) THEN [v |-> FromInt(v), ub |-> FALSE]
  ELSE IF IsFloat(From) THEN FloatToInt(To, v)
  ELSE [v |-> static_cast(To, v), ub |-> FALSE]

\* The enable_if of the constructor template distance(const Repr2&).
ctor_template_enabled(Repr, Repr2) ==
  is_convertible(Repr2, Repr) /\ (IsFloat(Repr) \/ ~IsFloat(Repr2))

\* distance(Repr c) is viable for an argument that converts to Repr.
ctor_value_viable(Repr, Repr2) == is_convertible(Repr2, Repr)

\* Construction accepted only from a Repr2 all of whose values Repr holds.
is_constructible_lossless(Repr, Repr2) ==
  /\ Repr2 # "pointer"
  /\ (IsFloat(Repr) \/ ~IsFloat(Repr2))
  /\ (IsFloat(Repr) \/ (MinOf(Repr) <= MinOf(Repr2) /\ MaxOf(Repr2) <= MaxOf(Repr)))

\* std::is_constructible<distance<Repr, Ratio>, Repr2>: overload resolution
\* finds the constructor template or distance(Repr).
is_constructible(Repr, Repr2) ==
  ctor_template_enabled(Repr, Repr2) \/ ctor_value_viable(Repr, Repr2)

\* distance<Repr, Ratio>(r) for r of type Repr2: either constructor
\* initialises count_ with r converted to Repr; without a viable constructor
\* the expression is ill-formed.
construct(t, Repr2, r) ==
  IF is_constructible(t.repr, Repr2)
    THEN LET c == Convert(t.repr, Repr2, r)
         IN  [kind |-> "distance", d |-> [distance(t, c.v) EXCEPT !.ub = c.ub]]
  ELSE [kind |-> "rejected"]

\* A template argument given for Repr: an arithmetic type, or a distance type
\* with its cv-qualifiers.
ArithmeticRepr(r) == [kind |-> "arithmetic", repr |-> r]

DistanceRepr(cv, t) == [kind |-> "distance", cv |-> cv, t |-> t]

\* is_distance<T>: true for distance<Repr, Ratio>, plain, const, volatile and
\* const volatile.
is_distance(T) ==
  T.kind = "distance" /\ T.cv \in {"", "const", "volatile", "const volatile"}

Sign(x) == IF x < 0 THEN 0 - 1 ELSE IF x > 0 THEN 1 ELSE 0

\* std::ratio<N, D> for D # 0: num carries the sign, den is positive.
std_ratio(N, D) ==
  [num |-> Sign(N) * Sign(D) * ratio(Abs(N), Abs(D)).num,
   den |-> ratio(Abs(N), Abs(D)).den]

\* The class template accepting a ratio whose numerator is zero.
distance_type_nonnegative(Repr, N, D) ==
  IF D = 0 \/ is_distance(Repr) \/ std_ratio(N, D).num < 0
    THEN [kind |-> "rejected"]
  ELSE [kind |-> "type", t |-> DType(Repr.repr, std_ratio(N, D))]

\* distance<Repr, std::ratio<N, D>> instantiated: std::ratio rejects a zero
\* denominator, and the static_asserts of distance a Repr that is a distance
\* and a Ratio::num that is not positive.
distance_type(Repr, N, D) ==
  IF D = 0 THEN [kind |-> "rejected"]
  ELSE IF is_distance(Repr) THEN [kind |-> "rejected"]
  ELSE IF ~(std_ratio(N, D).num > 0) THEN [kind |-> "rejected"]
  ELSE [kind |-> "type", t |-> DType(Repr.repr, std_ratio(N, D))]

\* A common type that keeps the scale of the first operand.
common_type_of_first(t1, t2) ==
  DType(common_repr(t1.repr, t2.repr), RatioOf(t1))

\* std::common_type<distance<Repr1, Ratio1>, distance<Repr2, Ratio2>>::type
common_type(t1, t2) ==
  DType(common_repr(t1.repr, t2.repr), ratio_gcd(RatioOf(t1), RatioOf(t2)))

\* ------------------------------------------------------------------------
\* distance_cast
\* ------------------------------------------------------------------------

\* CT of __distance_cast: common_type<ToDistance::repr, FromDistance::repr, intmax_t>.
CastCT(To, fd) == common_repr(common_repr(To.repr, fd.repr), "intmax")

\* __distance_cast<From, To, Ratio, true, true>: same scale, convert the count.
__distance_cast_id(To, fd) ==
  [distance(To, count(fd)) EXCEPT !.ub = fd.ub]

\* The coarser-unit specialization multiplying where it has to divide.
__distance_cast_div_as_mul(To, fd, Ratio) ==
  LET CT == common_repr(common_repr(To.repr, fd.repr), "intmax")
      p  == Arith(CT, static_cast(CT, count(fd)) * static_cast(CT, Ratio.den))
  IN  [distance(To, p.v) EXCEPT !.ub = fd.ub \/ p.ub]

\* __distance_cast<From, To, Ratio, true, false>: divide by Ratio::den in CT.
__distance_cast_div(To, fd, Ratio) ==
  LET CT == CastCT(To, fd)
      q  == Quot(CT, static_cast(CT, count(fd)), static_cast(CT, Ratio.den))
  IN  IF IsFloat(CT) THEN distance(To, FDivInt(count(fd), Ratio.den))
      ELSE [distance(To, q.v) EXCEPT !.ub = fd.ub \/ q.ub]

\* __distance_cast<From, To, Ratio, false, true>: multiply by Ratio::num in CT.
__distance_cast_mul(To, fd, Ratio) ==
  LET CT == CastCT(To, fd)
      p  == Arith(CT, static_cast(CT, count(fd)) * static_cast(CT, Ratio.num))
  IN  IF IsFloat(CT) THEN distance(To, FMulInt(count(fd), Ratio.num))
      ELSE [distance(To, p.v) EXCEPT !.ub = fd.ub \/ p.ub]

\* The general specialization leaving out the division by Ratio::den.
__distance_cast_muldiv_no_div(To, fd, Ratio) ==
  LET CT == common_repr(common_repr(To.repr, fd.repr), "intmax")
      p  == Arith(CT, static_cast(CT, count(fd)) * static_cast(CT, Ratio.num))
  IN  IF IsFloat(CT) THEN distance(To, FMulInt(count(fd), Ratio.num))
      ELSE [distance(To, p.v) EXCEPT !.ub = fd.ub \/ p.ub]

\* __distance_cast<From, To, Ratio, false, false>: multiply in CT, narrow the
\* product to ToDistance::repr, then divide by Ratio::den in CT.
__distance_cast_muldiv(To, fd, Ratio) ==
  LET CT == CastCT(To, fd)
      p  == Arith(CT, static_cast(CT, count(fd)) * static_cast(CT, Ratio.num))
      n  == static_cast(To.repr, p.v)
      q  == Quot(CT, static_cast(CT, n), static_cast(CT, Ratio.den))
  IN  IF IsFloat(CT)
        THEN distance(To, FDivInt(FMulInt(count(fd), Ratio.num), Ratio.den))
      ELSE [distance(To, q.v) EXCEPT !.ub = fd.ub \/ p.ub \/ q.ub]

\* __distance_cast: the specialization is selected by Ratio::num == 1 and
\* Ratio::den == 1 of Ratio = ratio_divide<From::ratio, To::ratio>.
__distance_cast(To, fd) ==
  LET Ratio == ratio_divide(RatioOf(fd), RatioOf(To))
  IN  CASE Ratio.num = 1 /\ Ratio.den = 1 -> __distance_cast_id(To, fd)
        [] Ratio.num = 1 /\ Ratio.den # 1 -> __distance_cast_div(To, fd, Ratio)
        [] Ratio.num # 1 /\ Ratio.den = 1 -> __distance_cast_mul(To, fd, Ratio)
        [] Ratio.num # 1 /\ Ratio.den # 1 -> __distance_cast_muldiv(To, fd, Ratio)

\* distance_cast<ToDistance>(d)
distance_cast(To, d) == __distance_cast(To, d)

\* ------------------------------------------------------------------------
\* Relational operators
\* ------------------------------------------------------------------------

\* A boolean result; ub records that its evaluation was undefined.
Bool(b, u) == [kind |-> "bool", b |-> b, ub |-> u]

\* A raw number of type r (the result of distance / distance).
Number(r, e) == [kind |-> "number", repr |-> r, v |-> e.v, ub |-> e.ub]

\* __distance_eq<Distance, Distance>: operands of one type, compare the counts.
\* The same-type equality with the tolerance excluded: a difference of exactly
\* epsilon does not count as equal.
__distance_eq_same_strict(lhs, rhs) ==
  IF IsFloat(lhs.repr)
    THEN Bool(IF FLess(count(rhs), count(lhs))
                THEN FLess(FSub(count(lhs), count(rhs)), epsilon)
                ELSE FLess(FSub(count(rhs), count(lhs)), epsilon),
              lhs.ub \/ rhs.ub)
  ELSE Bool(count(lhs) = count(rhs), lhs.ub \/ rhs.ub)

\* __distance_eq<Distance, Distance>: operands of one type. Counts of a
\* floating-point representation are equal when the larger minus the smaller
\* is at most the epsilon of float; other counts are compared with ==.
__distance_eq_same(lhs, rhs) ==
  IF IsFloat(lhs.repr)
    THEN Bool(IF FLess(count(rhs), count(lhs))
                THEN ~FLess(epsilon, FSub(count(lhs), count(rhs)))
                ELSE ~FLess(epsilon, FSub(count(rhs), count(lhs))),
              lhs.ub \/ rhs.ub)
  ELSE Bool(count(lhs) = count(rhs), lhs.ub \/ rhs.ub)

\* Equality comparing the counts without casting to the common type.
__distance_eq_uncast(lhs, rhs) ==
  [kind |-> "bool", b |-> count(lhs) = count(rhs), ub |-> lhs.ub \/ rhs.ub]

\* __distance_eq<Lhs, Rhs>: cast both to the common type, compare the counts.
__distance_eq(lhs, rhs) ==
  IF TypeOf(lhs) = TypeOf(rhs) THEN __distance_eq_same(lhs, rhs)
  ELSE LET CT == common_type(TypeOf(lhs), TypeOf(rhs))
           l  == distance_cast(CT, lhs)
           r  == distance_cast(CT, rhs)
       IN  Bool(count(l) = count(r), l.ub \/ r.ub)

\* operator==
op_eq(lhs, rhs) == __distance_eq(lhs, rhs)

\* __distance_eq<Distance, Distance> of the exact variant: compare the counts
\* with ==, whatever the representation.
__distance_eq_same_exact(lhs, rhs) ==
  Bool(count(lhs) = count(rhs), lhs.ub \/ rhs.ub)

\* __distance_eq<Lhs, Rhs> and operator== of the exact variant.
op_eq_exact(lhs, rhs) ==
  IF TypeOf(lhs) = TypeOf(rhs) THEN __distance_eq_same_exact(lhs, rhs)
  ELSE LET CT == common_type(TypeOf(lhs), TypeOf(rhs))
           l  == distance_cast(CT, lhs)
           r  == distance_cast(CT, rhs)
       IN  Bool(count(l) = count(r), l.ub \/ r.ub)

\* operator!=
op_ne(lhs, rhs) == LET e == __distance_eq(lhs, rhs) IN Bool(~e.b, e.ub)

\* __distance_lt<Distance, Distance>: operands of one type, compare the counts.
__distance_lt_same(lhs, rhs) ==
  Bool(count(lhs) < count(rhs), lhs.ub \/ rhs.ub)

\* Ordering comparing the counts without casting to the common type.
__distance_lt_uncast(lhs, rhs) ==
  [kind |-> "bool", b |-> count(lhs) < count(rhs), ub |-> lhs.ub \/ rhs.ub]

\* __distance_lt<Lhs, Rhs>: cast both to the common type and compare those
\* with operator<, which then selects the same-type specialization.
__distance_lt(lhs, rhs) ==
  IF TypeOf(lhs) = TypeOf(rhs) THEN __distance_lt_same(lhs, rhs)
  ELSE LET CT == common_type(TypeOf(lhs), TypeOf(rhs))
       IN  __distance_lt_same(distance_cast(CT, lhs), distance_cast(CT, rhs))

\* operator<
op_lt(lhs, rhs) == __distance_lt(lhs, rhs)

\* Greater-than without swapping the operands.
op_gt_unswapped(lhs, rhs) == __distance_lt(lhs, rhs)

\* operator>: rhs < lhs
op_gt(lhs, rhs) == op_lt(rhs, lhs)

\* A <= that is true only for the strictly smaller.
op_le_as_lt(lhs, rhs) == op_lt(lhs, rhs)

\* operator<=: !(rhs < lhs)
op_le(lhs, rhs) == LET l == op_lt(rhs, lhs) IN Bool(~l.b, l.ub)

\* operator>=: !(lhs < rhs)
op_ge(lhs, rhs) == LET l == op_lt(lhs, rhs) IN Bool(~l.b, l.ub)

\* ------------------------------------------------------------------------
\* Arithmetic operators
\* ------------------------------------------------------------------------

\* A distance result of type t holding the value of expression e, whose
\* operands l and r were themselves results of casts.
Dist(t, e, u) ==
  [kind |-> "distance", d |-> [distance(t, e.v) EXCEPT !.ub = e.ub \/ u]]

\* Addition casting only the left operand to the common type.
op_add_rhs_uncast(lhs, rhs) ==
  LET CD == common_type(TypeOf(lhs), TypeOf(rhs))
      l  == distance_cast(CD, lhs)
  IN  Dist(CD, Arith(CD.repr, count(l) + count(rhs)), l.ub \/ rhs.ub)

\* operator +(distance, distance)
op_add(lhs, rhs) ==
  LET CD == common_type(TypeOf(lhs), TypeOf(rhs))
      l  == distance_cast(CD, lhs)
      r  == distance_cast(CD, rhs)
  IN  Dist(CD, Arith(CD.repr, count(l) + count(r)), l.ub \/ r.ub)

\* Subtraction casting only the left operand to the common type.
op_sub_rhs_uncast(lhs, rhs) ==
  LET CD == common_type(TypeOf(lhs), TypeOf(rhs))
      l  == distance_cast(CD, lhs)
  IN  Dist(CD, Arith(CD.repr, count(l) - count(rhs)), l.ub \/ rhs.ub)

\* operator -(distance, distance)
op_sub(lhs, rhs) ==
  LET CD == common_type(TypeOf(lhs), TypeOf(rhs))
      l  == distance_cast(CD, lhs)
      r  == distance_cast(CD, rhs)
  IN  Dist(CD, Arith(CD.repr, count(l) - count(r)), l.ub \/ r.ub)

\* operator *(distance, scalar)
op_mul(d, s) ==
  LET CR == common_repr(d.repr, s.repr)
      CD == DType(CR, RatioOf(d))
      l  == distance_cast(CD, d)
  IN  Dist(CD, Arith(CR, count(l) * static_cast(CR, s.v)), l.ub)

\* Scalar multiplication computed in the distance's own representation.
op_mul_sd_own_repr(s, d) ==
  Dist(TypeOf(d), Arith(d.repr, count(d) * static_cast(d.repr, s.v)), d.ub)

\* operator *(scalar, distance)
op_mul_sd(s, d) ==
  LET CR == common_repr(d.repr, s.repr)
      CD == DType(CR, RatioOf(d))
      l  == distance_cast(CD, d)
  IN  Dist(CD, Arith(CR, count(l) * static_cast(CR, s.v)), l.ub)

\* Scalar division taking the remainder where it has to take the quotient.
op_div_s_as_mod(d, s) ==
  LET CR == common_repr(d.repr, s.repr)
      CD == DType(CR, RatioOf(d))
      l  == distance_cast(CD, d)
  IN  Dist(CD, Rem(CR, count(l), static_cast(CR, s.v)), l.ub)

\* operator /(distance, scalar)
op_div_s(d, s) ==
  LET CR == common_repr(d.repr, s.repr)
      CD == DType(CR, RatioOf(d))
      l  == distance_cast(CD, d)
  IN  Dist(CD, Quot(CR, count(l), static_cast(CR, s.v)), l.ub)

\* Division of the counts as stored, without casting to the common type.
op_div_uncast(lhs, rhs) ==
  LET CR == common_repr(lhs.repr, rhs.repr)
      q  == Quot(CR, static_cast(CR, count(lhs)), static_cast(CR, count(rhs)))
  IN  Number(CR, [q EXCEPT !.ub = q.ub \/ lhs.ub \/ rhs.ub])

\* operator /(distance, distance): a raw number of type common_type<Repr1, Repr2>.
op_div(lhs, rhs) ==
  LET CT == common_type(TypeOf(lhs), TypeOf(rhs))
      l  == distance_cast(CT, lhs)
      r  == distance_cast(CT, rhs)
      q  == Quot(CT.repr, count(l), count(r))
  IN  Number(CT.repr, [q EXCEPT !.ub = q.ub \/ l.ub \/ r.ub])

\* operator %(distance, scalar)
op_mod_s(lhs, s) ==
  LET CR == common_repr(lhs.repr, s.repr)
      CD == DType(CR, RatioOf(lhs))
      l  == distance_cast(CD, lhs)
  IN  Dist(CD, Rem(CR, count(l), static_cast(CR, s.v)), l.ub)

\* Modulo of two distances returning the quotient of the counts.
op_mod_as_div(lhs, rhs) ==
  LET CR == common_repr(lhs.repr, rhs.repr)
      CD == common_type(TypeOf(lhs), TypeOf(rhs))
      l  == distance_cast(CD, lhs)
      r  == distance_cast(CD, rhs)
  IN  Dist(CD, Quot(CR, static_cast(CR, count(l)), static_cast(CR, count(r))),
           l.ub \/ r.ub)

\* operator %(distance, distance)
op_mod(lhs, rhs) ==
  LET CR == common_repr(lhs.repr, rhs.repr)
      CD == common_type(TypeOf(lhs), TypeOf(rhs))
      l  == distance_cast(CD, lhs)
      r  == distance_cast(CD, rhs)
  IN  Dist(CD, Rem(CR, static_cast(CR, count(l)), static_cast(CR, count(r))),
           l.ub \/ r.ub)

\* ------------------------------------------------------------------------
\* Member operators that change the count
\* ------------------------------------------------------------------------

\* An increment that adds two.
increment_by_two(d) == Dist(TypeOf(d), Arith(d.repr, count(d) + 2), d.ub)

\* ++count_ of operator++() and count_++ of operator++(int): the new value of d.
increment(d) == Dist(TypeOf(d), Arith(d.repr, count(d) + 1), d.ub)

\* A decrement that stops at the least count of the representation.
decrement_saturating(d) ==
  IF count(d) = MinOf(d.repr) THEN Dist(TypeOf(d), Arith(d.repr, count(d)), d.ub)
  ELSE Dist(TypeOf(d), Arith(d.repr, count(d) - 1), d.ub)

\* --count_ of operator--() and count_-- of operator--(int): the new value of d.
decrement(d) == Dist(TypeOf(d), Arith(d.repr, count(d) - 1), d.ub)

\* operator +=: count_ += rhs.count_
op_add_assign(d, rhs) ==
  Dist(TypeOf(d), Arith(d.repr, count(d) + count(rhs)), d.ub \/ rhs.ub)

\* A -= that adds.
op_sub_assign_adding(d, rhs) ==
  Dist(TypeOf(d), Arith(d.repr, count(d) + count(rhs)), d.ub \/ rhs.ub)

\* operator -=: count_ -= rhs.count_
op_sub_assign(d, rhs) ==
  Dist(TypeOf(d), Arith(d.repr, count(d) - count(rhs)), d.ub \/ rhs.ub)

\* operator *=(const repr& s): the scalar is converted to repr; count_ *= s
op_mul_assign(d, s) ==
  Dist(TypeOf(d), Arith(d.repr, count(d) * static_cast(d.repr, s.v)), d.ub)

\* operator /=(const repr& s): count_ /= s
op_div_assign(d, s) ==
  Dist(TypeOf(d), Quot(d.repr, count(d), static_cast(d.repr, s.v)), d.ub)

\* operator %=(const repr& s): count_ %= s
op_mod_assign_s(d, s) ==
  Dist(TypeOf(d), Rem(d.repr, count(d), static_cast(d.repr, s.v)), d.ub)

\* operator %=(const distance& rhs): count_ %= rhs.count_
op_mod_assign(d, rhs) ==
  Dist(TypeOf(d), Rem(d.repr, count(d), count(rhs)), d.ub \/ rhs.ub)

\* ------------------------------------------------------------------------
\* Stream operators
\* ------------------------------------------------------------------------

\* A character type: a stream writes its value as one character.
IsCharacter(r) == r = "schar"

\* The character with code c, for the codes of '0' .. 'Z'.
Chr(c) ==
  <<"0", "1", "2", "3", "4", "5", "6", "7", "8", "9", ":", ";", "<", "=", ">",
    "?", "@", "A", "B", "C", "D", "E", "F", "G", "H", "I", "J", "K", "L", "M",
    "N", "O", "P", "Q", "R", "S", "T", "U", "V", "W", "X", "Y", "Z">>[c - 47]

Digit(d) == <<"0", "1", "2", "3", "4", "5", "6", "7", "8", "9">>[d + 1]

\* The decimal digits of n >= 0, without leading zeros.
RECURSIVE Digits(_)
Digits(n) == IF n < 10 THEN Digit(n) ELSE Digits(n \div 10) \o Digit(n % 10)

\* o << n for an integer n that is no character: decimal, '-' if negative.
PutInteger(n) == IF n < 0 THEN "-" \o Digits(0 - n) ELSE Digits(n)

\* o << d.count(): the overload of the stream for the type Repr.
PutCount(r, c) == IF IsCharacter(r) THEN Chr(c) ELSE PutInteger(c)

\* The template arguments of a std::ratio<N, D> as they are written; two
\* ratio types are one type only if both arguments are the same.
Written(n, d) == [N |-> n, D |-> d]

\* The ratio a library-made type is written with: __ratio_gcd names its
\* result by the reduced numerator and denominator.
WrittenOf(t) == Written(t.num, t.den)

\* The specializations of operator <<, each with the text it appends.
Specializations ==
  { [Ratio |-> Written(1, 1000000000), text |-> " nm"],
    [Ratio |-> Written(1, 1000000),    text |-> " um"],
    [Ratio |-> Written(1, 1000),       text |-> " mm"],
    [Ratio |-> Written(1, 100),        text |-> " cm"],
    [Ratio |-> Written(1, 10),         text |-> " dm"],
    [Ratio |-> Written(1, 1),          text |-> " m"],
    [Ratio |-> Written(1000, 1),       text |-> " km"],
    [Ratio |-> Written(1000000, 1),    text |-> " Mm"] }

\* operator <<(std::ostream&, const distance<Repr, Ratio>&) for a distance d
\* whose type is written with the ratio W: the specialization for the type
\* Ratio if there is one, otherwise the primary template, which writes
\* Ratio::num and Ratio::den.
op_stream_out(W, d) ==
  IF \E s \in Specializations : s.Ratio = W
    THEN PutCount(d.repr, count(d))
           \o (CHOOSE s \in Specializations : s.Ratio = W).text
  ELSE PutCount(d.repr, count(d)) \o " " \o PutInteger(ratio(W.N, W.D).num)
         \o "/" \o PutInteger(ratio(W.N, W.D).den) \o " m"

\* ------------------------------------------------------------------------
\* The state machine: a caller holding two operands applies the operations
\* ------------------------------------------------------------------------

VARIABLES
  lhs,    \* the distance the caller operates on
  arg,    \* the other operand: a distance, a scalar or a target type
  op,     \* the operation applied last
  mid,    \* the result of the first cast of a cast-and-back round trip
  res     \* the value the operation returned

vars == <<lhs, arg, op, mid, res>>

\* Integer representation types of the operands.
Reprs == {"int", "ull"}

\* nanometers .. megameters are std::ratio scales; the model draws millimeters,
\* centimeters, meters and the yards of the documentation (1143/1250).
Scales == {ratio(1, 1000), ratio(1, 100), ratio(1, 1), ratio(1143, 1250)}

Types == {DType(r, q) : r \in Reprs, q \in Scales}

\* Counts named by the documentation and the tests, beside the small ones.
ExampleCounts == {40, 500}

\* The ends of a representation's range, a quarter of its range (whose
\* multiples by 100 wrap to zero), and -1 where the representation is signed.
EdgeCounts(r) ==
  {MinOf(r), MaxOf(r), Pow2(Bits(r) - 2)} \cup (IF IsSigned(r) THEN {0 - 1} ELSE {})

Counts(r) ==
  {c \in (0 .. MaxCount) \cup ExampleCounts : InRange(r, c)} \cup EdgeCounts(r)

Operands == UNION {{distance(t, c) : c \in Counts(t.repr)} : t \in Types}

\* Operands of representation float: yards<float>(10.0) and its neighbours.
FloatTypes == {DType("float", q) : q \in Scales}

FloatCounts == {FromInt(n) : n \in 0 .. MaxFloatCount}

FloatOperands == {distance(t, c) : t \in FloatTypes, c \in FloatCounts}

\* Operands of the sums of two and three: small counts, the largest count,
\* and -1 where the representation is signed.
SumCounts(r) == {1, 5, MaxOf(r)} \cup (IF IsSigned(r) THEN {0 - 1} ELSE {})

SumOperands == UNION {{distance(t, c) : c \in SumCounts(t.repr)} : t \in Types}

\* The third operand of a sum of three.
ThirdOperands ==
  {distance(t, 2) : t \in Types} \cup {distance(DType("int", ratio(1, 1)), MaxOf("int"))}

Scalar(r, v) == [kind |-> "scalar", repr |-> r, v |-> static_cast(r, v)]

Scalars == {Scalar(r, v) : r \in Reprs, v \in (0 - 1) .. MaxScalar}
             \cup {Scalar("int", 5), Scalar("int", 30)}

\* Counts handed to a constructor, each with its type Repr2: integers over
\* the range of their type and a pointer; the floats 0, 1, 2.5 and 2^IntBits.
Value(r, v) == [kind |-> "value", repr |-> r, v |-> v]

IntValues ==
  {Value(r, v) : r \in Reprs, v \in {0, 1, 40}}
    \cup {Value("int", 0 - 1), Value("int", MinOf("int")), Value("int", MaxOf("int"))}
    \cup {Value("ull", MaxOf("int") + 1), Value("ull", Pow2(IntBits) + 44),
          Value("ull", MaxOf("ull"))}
    \cup {Value("pointer", 0)}

FloatValues ==
  {Value("float", x) : x \in {FromInt(0), FromInt(1), FNorm(5, 0 - 1),
                               FromInt(Pow2(IntBits))}}

\* The integer counts the model converts to the representation r: to float,
\* only the non-negative ones.
IntValuesFor(r) == {x \in IntValues : IsFloat(r) => x.v >= 0}

Args == {[kind |-> "distance", d |-> d] : d \in Operands}
          \cup Scalars
          \cup {[kind |-> "type", t |-> t] : t \in Types}
          \cup IntValues

None == [kind |-> "none"]

\* The operation faulted (integer division by zero traps).
Fault == [kind |-> "fault"]

\* Values an undefined integer evaluation of type r may leave behind.
UBValues(r) == {MinOf(r), 0, MaxOf(r)}

\* What the caller can observe of a result x: x itself when its evaluation was
\* defined, otherwise any value of its type or a fault.
Outcomes(x) ==
  IF x.kind = "distance" /\ x.d.ub
    THEN {[x EXCEPT !.d.count = c] : c \in UBValues(x.d.repr) \cup {x.d.count}}
           \cup {Fault}
  ELSE IF x.kind = "number" /\ x.ub
    THEN {[x EXCEPT !.v = c] : c \in UBValues(x.repr) \cup {x.v}} \cup {Fault}
  ELSE IF x.kind = "bool" /\ x.ub
    THEN {[x EXCEPT !.b = c] : c \in BOOLEAN} \cup {Fault}
  ELSE {x}

Init ==
  /\ lhs \in Operands
  /\ (arg \in Args \/ arg \in FloatValues)
  /\ op = "init"
  /\ mid = None
  /\ res = None

\* An evaluation that leaves a distance it computes in lhs, as a compound
\* assignment would.
ApplyMoving(o, x) ==
  /\ op' = o
  /\ res' \in Outcomes(x)
  /\ mid' = None
  /\ lhs' = IF res'.kind = "distance" THEN res'.d ELSE lhs
  /\ UNCHANGED arg

\* The caller evaluates the expression named o, whose value is x.
Apply(o, x) ==
  /\ op' = o
  /\ res' \in Outcomes(x)
  /\ mid' = None
  /\ UNCHANGED <<lhs, arg>>

\* lhs.count()
Count == Apply("count", Number(lhs.repr, [v |-> count(lhs), ub |-> lhs.ub]))

\* distance_cast<T>(lhs)
Cast ==
  /\ arg.kind = "type"
  /\ Apply("cast", [kind |-> "distance", d |-> distance_cast(arg.t, lhs)])

\* distance_cast<decltype(lhs)>(distance_cast<T>(lhs))
CastBack ==
  /\ op = "cast"
  /\ res.kind = "distance"
  /\ op' = "cast_back"
  /\ mid' = res
  /\ res' \in Outcomes([kind |-> "distance",
                        d |-> distance_cast(TypeOf(lhs), res.d)])
  /\ UNCHANGED <<lhs, arg>>

\* decltype(lhs)(r), for a count r of type Repr2
Construct ==
  /\ arg.kind = "value"
  /\ Apply("construct", construct(TypeOf(lhs), arg.repr, arg.v))

\* The operations that change lhs, and the calls made so far: mid is the
\* sequence of [o, before, ret], the operation, lhs before it and its result.
StepOps == {"post_inc", "pre_inc", "pre_dec", "post_dec"}

AssignOps ==
  {"add_assign", "sub_assign", "mul_assign", "div_assign", "mod_assign_s", "mod_assign"}

Calls == IF op \in StepOps \cup AssignOps THEN mid ELSE <<>>

\* lhs becomes the value of x, and the call returns lhs as it was (post) or as
\* it is now; an undefined x leaves any count behind, or faults. The caller
\* makes at most max calls.
Mutate(o, x, post, max) ==
  /\ res.kind # "fault"
  /\ Len(Calls) < max
  /\ \E y \in Outcomes(x) :
       LET ret == IF y = Fault THEN Fault
                  ELSE IF post THEN [kind |-> "distance", d |-> lhs]
                  ELSE y
       IN  /\ lhs' = IF y = Fault THEN lhs ELSE y.d
           /\ res' = ret
           /\ mid' = Append(Calls, [o |-> o, before |-> lhs, ret |-> ret])
  /\ op' = o
  /\ UNCHANGED arg

\* lhs++
PostInc == Mutate("post_inc", increment(lhs), TRUE, MaxSteps)

\* ++lhs
PreInc == Mutate("pre_inc", increment(lhs), FALSE, MaxSteps)

\* --lhs
PreDec == Mutate("pre_dec", decrement(lhs), FALSE, MaxSteps)

\* lhs--
PostDec == Mutate("post_dec", decrement(lhs), TRUE, MaxSteps)

\* A distance converts to no other distance type: += , -= and %= take a
\* distance of the type of lhs.
SameTypeArg == arg.kind = "distance" /\ TypeOf(arg.d) = TypeOf(lhs)

\* lhs += arg
AddAssign ==
  SameTypeArg /\ Mutate("add_assign", op_add_assign(lhs, arg.d), FALSE, MaxAssigns)

\* lhs -= arg
SubAssign ==
  SameTypeArg /\ Mutate("sub_assign", op_sub_assign(lhs, arg.d), FALSE, MaxAssigns)

\* lhs *= s
MulAssign ==
  arg.kind = "scalar" /\ Mutate("mul_assign", op_mul_assign(lhs, arg), FALSE, MaxAssigns)

\* lhs /= s
DivAssign ==
  arg.kind = "scalar" /\ Mutate("div_assign", op_div_assign(lhs, arg), FALSE, MaxAssigns)

\* lhs %= s
ModAssignS ==
  arg.kind = "scalar" /\ Mutate("mod_assign_s", op_mod_assign_s(lhs, arg), FALSE, MaxAssigns)

\* lhs %= arg
ModAssign ==
  SameTypeArg /\ Mutate("mod_assign", op_mod_assign(lhs, arg.d), FALSE, MaxAssigns)

\* lhs == arg
Eq == arg.kind = "distance" /\ Apply("eq", op_eq(lhs, arg.d))

\* lhs == arg in the exact variant
EqExact == arg.kind = "distance" /\ Apply("eq_exact", op_eq_exact(lhs, arg.d))

\* lhs != arg
Ne == arg.kind = "distance" /\ Apply("ne", op_ne(lhs, arg.d))

\* lhs < arg
Lt == arg.kind = "distance" /\ Apply("lt", op_lt(lhs, arg.d))

\* lhs > arg
Gt == arg.kind = "distance" /\ Apply("gt", op_gt(lhs, arg.d))

\* lhs <= arg
Le == arg.kind = "distance" /\ Apply("le", op_le(lhs, arg.d))

\* lhs >= arg
Ge == arg.kind = "distance" /\ Apply("ge", op_ge(lhs, arg.d))

\* lhs + arg
Add == arg.kind = "distance" /\ Apply("add", op_add(lhs, arg.d))

\* lhs - arg
Sub == arg.kind = "distance" /\ Apply("sub", op_sub(lhs, arg.d))

\* lhs * s
Mul == arg.kind = "scalar" /\ Apply("mul", op_mul(lhs, arg))

\* s * lhs
MulSD == arg.kind = "scalar" /\ Apply("mul_sd", op_mul_sd(arg, lhs))

\* lhs / s
DivS == arg.kind = "scalar" /\ Apply("div_s", op_div_s(lhs, arg))

\* lhs / arg
Div == arg.kind = "distance" /\ Apply("div", op_div(lhs, arg.d))

\* lhs % s
ModS == arg.kind = "scalar" /\ Apply("mod_s", op_mod_s(lhs, arg))

\* lhs % arg
Mod == arg.kind = "distance" /\ Apply("mod", op_mod(lhs, arg.d))

\* q * b + (a % b), undefined where the quotient q is.
DivIdentitySum(q, a, b) ==
  LET s == op_add(op_mul_sd([kind |-> "scalar", repr |-> q.repr, v |-> q.v], b).d,
                  op_mod(a, b).d)
  IN  [kind |-> "distance", d |-> [s.d EXCEPT !.ub = @ \/ q.ub]]

\* lhs == (lhs / arg) * arg + (lhs % arg): the value of the right-hand side.
DivIdentityRhs(a, b) == DivIdentitySum(op_div(a, b), a, b)

\* lhs == (lhs / arg) * arg + (lhs % arg)
DivIdentity ==
  /\ arg.kind = "distance"
  /\ op' = "div_identity"
  /\ mid' = DivIdentityRhs(lhs, arg.d)
  /\ res' \in Outcomes(op_eq(lhs, mid'.d))
  /\ UNCHANGED <<lhs, arg>>

\* (lhs / s) * s == lhs, after lhs / s
MulBack ==
  /\ op = "div_s"
  /\ res.kind = "distance"
  /\ op' = "mul_back"
  /\ mid' = res
  /\ res' \in Outcomes(op_eq(op_mul(res.d, arg).d, lhs))
  /\ UNCHANGED <<lhs, arg>>

\* (lhs + arg) == (arg + lhs)
AddCommute ==
  /\ arg.kind = "distance"
  /\ op' = "add_commute"
  /\ mid' = [kind |-> "sums", l |-> op_add(lhs, arg.d).d, r |-> op_add(arg.d, lhs).d]
  /\ res' \in Outcomes(op_eq(op_add(lhs, arg.d).d, op_add(arg.d, lhs).d))
  /\ UNCHANGED <<lhs, arg>>

\* (lhs + arg) + c == lhs + (arg + c), for a third distance c
AddAssoc ==
  /\ arg.kind = "distance"
  /\ \E c \in ThirdOperands :
       LET l == op_add(op_add(lhs, arg.d).d, c).d
           r == op_add(lhs, op_add(arg.d, c).d).d
       IN  /\ mid' = [kind |-> "sums", l |-> l, r |-> r, c |-> c]
           /\ res' \in Outcomes(op_eq(l, r))
  /\ op' = "add_assoc"
  /\ UNCHANGED <<lhs, arg>>

\* Ratios a caller writes a distance type with: the eight named ones, the
\* yards of the documentation, two further scales, and three of the named
\* scales written with a common factor.
WrittenRatios ==
  {s.Ratio : s \in Specializations}
    \cup {Written(1143, 1250), Written(1, 10000), Written(100, 1)}
    \cup {Written(2, 200), Written(10, 10), Written(2000, 2)}

\* Counts of a character representation: '0', 'A', 'B' and 'Z'.
CharCounts == {48, 65, 66, 90}

FormatCounts(r) == IF IsCharacter(r) THEN CharCounts ELSE Counts(r)

\* Distances of every written ratio, with an integer or character count.
FormatOperands ==
  UNION {{distance(DType(r, ratio(W.N, W.D)), c) : c \in FormatCounts(r)} :
           r \in Reprs \cup {"schar"}, W \in WrittenRatios}

Text(s) == [kind |-> "text", s |-> s]

\* o << lhs, for lhs of a type written with the ratio W
Format ==
  \E W \in WrittenRatios :
    /\ ratio(W.N, W.D) = RatioOf(lhs)
    /\ op' = "format"
    /\ mid' = [kind |-> "ratio", W |-> W]
    /\ res' = Text(op_stream_out(W, lhs))
    /\ UNCHANGED <<lhs, arg>>

\* The caller writes the value x of the expression named o to a stream.
Put(o, x) ==
  /\ op' = o
  /\ \E y \in Outcomes(x) :
       /\ mid' = y
       /\ res' = IF y = Fault THEN Fault
                 ELSE Text(op_stream_out(WrittenOf(TypeOf(y.d)), y.d))
  /\ UNCHANGED <<lhs, arg>>

\* o << lhs + arg
FormatSum == arg.kind = "distance" /\ Put("format_sum", op_add(lhs, arg.d))

\* o << lhs - arg
FormatDiff == arg.kind = "distance" /\ Put("format_diff", op_sub(lhs, arg.d))

\* Template arguments a caller writes a distance type with: every
\* representation of the model and distances in every cv-qualification, with
\* numerators and denominators around zero and those of centimeters.
ReprArguments ==
  {ArithmeticRepr(r) : r \in Reprs \cup {"float"}}
    \cup {DistanceRepr(cv, t) : cv \in {"", "const", "volatile", "const volatile"},
                                t \in {DType("int", ratio(1, 1)), DType("ull", ratio(1, 100))}}

RatioArguments == ((0 - MaxScalar) .. MaxScalar) \cup {0 - 100, 100}

Declarations ==
  {[kind |-> "declaration", Repr |-> R, N |-> n, D |-> d] :
     R \in ReprArguments, n \in RatioArguments, d \in RatioArguments}

\* distance<Repr, std::ratio<N, D>> x;
Declare ==
  /\ arg.kind = "declaration"
  /\ op' = "declare"
  /\ mid' = None
  /\ res' = distance_type(arg.Repr, arg.N, arg.D)
  /\ UNCHANGED <<lhs, arg>>

\* std::common_type<decltype(lhs), decltype(arg)>::type
CommonType ==
  /\ arg.kind = "distance"
  /\ op' = "common_type"
  /\ mid' = None
  /\ res' = [kind |-> "type", t |-> common_type(TypeOf(lhs), TypeOf(arg.d))]
  /\ UNCHANGED <<lhs, arg>>

Next ==
  \/ Construct
  \/ Cast
  \/ CastBack
  \/ Eq
  \/ Ne
  \/ Lt
  \/ Gt
  \/ Le
  \/ Ge
  \/ Add
  \/ Sub
  \/ Mul
  \/ MulSD
  \/ DivS
  \/ Div
  \/ ModS
  \/ Mod
  \/ DivIdentity
  \/ MulBack
  \/ AddCommute
  \/ AddAssoc
  \/ PostInc
  \/ PreInc
  \/ PreDec
  \/ PostDec
  \/ AddAssign
  \/ SubAssign
  \/ MulAssign
  \/ DivAssign
  \/ ModAssignS
  \/ ModAssign
  \/ Format
  \/ FormatSum
  \/ FormatDiff
  \/ Declare
  \/ CommonType
  \/ EqExact
  \/ Count

\* Every operation, from every pair of operands.
Spec == Init /\ [][Next]_vars

\* The caller casts lhs to another type, and back.
InitCast == Init /\ arg.kind = "type"

NextCast == Cast \/ CastBack

SpecCast == InitCast /\ [][NextCast]_vars

\* Float counts around the tolerance: 0, 2^-24, 2^-23 (epsilon), 3 * 2^-24,
\* 1, 1 + 2^-23, 1 + 2^-22, 5, 6 and 100.
TolerantCounts ==
  {FNorm(k, 0 - FloatDigits) : k \in {0, 1, 2, 3}}
    \cup {<<Pow2(FloatDigits - 1) + k, 1 - FloatDigits>> : k \in {0, 1, 2}}
    \cup {FromInt(n) : n \in {5, 6, 100}}

TolerantOperands == {distance(t, c) : t \in FloatTypes, c \in TolerantCounts}

\* The caller compares two distances for equality, in either variant.
InitEquality ==
  /\ \/ lhs \in Operands /\ arg \in {[kind |-> "distance", d |-> d] : d \in Operands}
     \/ /\ lhs \in TolerantOperands
        /\ arg \in {[kind |-> "distance", d |-> d] : d \in TolerantOperands}
  /\ op = "init"
  /\ mid = None
  /\ res = None

NextEquality == Eq \/ EqExact

SpecEquality == InitEquality /\ [][NextEquality]_vars

\* The caller compares two distances.
InitRel == Init /\ arg.kind = "distance"

NextRel == Eq \/ Ne \/ Lt

SpecRel == InitRel /\ [][NextRel]_vars

\* The caller compares two distances with the derived operators.
InitOrder == Init /\ arg.kind = "distance"

NextOrder == Gt \/ Le \/ Ge

SpecOrder == InitOrder /\ [][NextOrder]_vars

\* The caller combines two distances.
InitArith == Init /\ arg.kind = "distance"

NextArith == Add \/ Sub \/ Div \/ Mod

SpecArith == InitArith /\ [][NextArith]_vars

\* The caller combines a distance and a scalar.
InitScalar == Init /\ arg.kind = "scalar"

NextScalar == Mul \/ MulSD \/ DivS \/ ModS

SpecScalar == InitScalar /\ [][NextScalar]_vars

\* The caller takes lhs modulo a distance or a scalar.
InitMod == Init /\ arg.kind \in {"distance", "scalar"}

NextMod == Mod \/ ModS

SpecMod == InitMod /\ [][NextMod]_vars

\* The caller divides lhs and puts it together again.
InitIdentity == Init /\ arg.kind \in {"distance", "scalar"}

NextIdentity == DivIdentity \/ DivS \/ MulBack

SpecIdentity == InitIdentity /\ [][NextIdentity]_vars

\* The caller adds up two or three distances in either order and grouping.
InitSum ==
  /\ lhs \in SumOperands
  /\ arg \in {[kind |-> "distance", d |-> d] : d \in SumOperands}
  /\ op = "init"
  /\ mid = None
  /\ res = None

NextSum == AddCommute \/ AddAssoc

SpecSum == InitSum /\ [][NextSum]_vars

\* The caller constructs a distance from a count of some type.
InitConstruct ==
  /\ \/ lhs \in {distance(t, 0) : t \in Types}
     \/ lhs \in {distance(t, FromInt(0)) : t \in FloatTypes}
  /\ (arg \in IntValuesFor(lhs.repr) \/ arg \in FloatValues)
  /\ op = "init"
  /\ mid = None
  /\ res = None

NextConstruct == Construct

SpecConstruct == InitConstruct /\ [][NextConstruct]_vars

\* The caller increments and decrements lhs, up to MaxSteps times.
InitStep ==
  /\ lhs \in Operands
  /\ arg = None
  /\ op = "init"
  /\ mid = None
  /\ res = None

NextStep == PostInc \/ PreInc \/ PreDec \/ PostDec

SpecStep == InitStep /\ [][NextStep]_vars

\* The caller applies compound assignments to lhs, up to MaxAssigns times.
InitAssign ==
  /\ Init
  /\ arg.kind \in {"distance", "scalar"}
  /\ arg.kind = "distance" => TypeOf(arg.d) = TypeOf(lhs)

NextAssign ==
  AddAssign \/ SubAssign \/ MulAssign \/ DivAssign \/ ModAssignS \/ ModAssign

SpecAssign == InitAssign /\ [][NextAssign]_vars

\* The caller applies one operation of the library to its operands.
InitOps == Init

NextOps ==
  \/ op = "init" /\ Construct
  \/ op = "init" /\ Cast
  \/ op = "init" /\ Eq
  \/ op = "init" /\ Ne
  \/ op = "init" /\ Lt
  \/ op = "init" /\ Gt
  \/ op = "init" /\ Le
  \/ op = "init" /\ Ge
  \/ op = "init" /\ Add
  \/ op = "init" /\ Sub
  \/ op = "init" /\ Mul
  \/ op = "init" /\ MulSD
  \/ op = "init" /\ DivS
  \/ op = "init" /\ Div
  \/ op = "init" /\ ModS
  \/ op = "init" /\ Mod
  \/ op = "init" /\ PostInc
  \/ op = "init" /\ PreInc
  \/ op = "init" /\ PreDec
  \/ op = "init" /\ PostDec

SpecOps == InitOps /\ [][NextOps]_vars

\* The operations of the immutable variant, whose count_ is const: it has no
\* increment, decrement or compound assignment and no stream operator.
ImmutableOps ==
  {"construct", "count", "cast", "eq_exact", "ne", "lt", "gt", "le", "ge",
   "add", "sub", "mul", "mul_sd", "div_s", "div", "mod_s", "mod"}

\* The caller applies one operation of either variant to its operands, or
\* writes them to a stream.
InitFrame == Init

NextFrame ==
  \/ NextOps
  \/ op = "init" /\ Count
  \/ op = "init" /\ EqExact
  \/ op = "init" /\ AddAssign
  \/ op = "init" /\ SubAssign
  \/ op = "init" /\ MulAssign
  \/ op = "init" /\ DivAssign
  \/ op = "init" /\ ModAssignS
  \/ op = "init" /\ ModAssign
  \/ op = "init" /\ Format
  \/ op = "init" /\ FormatSum
  \/ op = "init" /\ FormatDiff

SpecFrame == InitFrame /\ [][NextFrame]_vars

\* The caller writes a distance, a sum or a difference to a stream.
InitFormat ==
  /\ \/ lhs \in FormatOperands /\ arg = None
     \/ lhs \in Operands /\ arg \in {[kind |-> "distance", d |-> d] : d \in Operands}
  /\ op = "init"
  /\ mid = None
  /\ res = None

NextFormat ==
  \/ op = "init" /\ Format
  \/ op = "init" /\ FormatSum
  \/ op = "init" /\ FormatDiff

SpecFormat == InitFormat /\ [][NextFormat]_vars

\* The caller declares distance types and takes the types the library makes.
InitType ==
  /\ \/ lhs \in Operands /\ arg \in Args /\ arg.kind \in {"distance", "scalar"}
     \/ lhs = distance(DType("int", ratio(1, 1)), 0) /\ arg \in Declarations
  /\ op = "init"
  /\ mid = None
  /\ res = None

NextType ==
  Declare \/ CommonType \/ Add \/ Sub \/ Mod \/ Mul \/ MulSD \/ DivS \/ ModS

SpecType == InitType /\ [][NextType]_vars

\* Casts of float distances, there and back.
InitFloat ==
  /\ lhs \in FloatOperands
  /\ arg \in {[kind |-> "type", t |-> t] : t \in FloatTypes}
  /\ op = "init"
  /\ mid = None
  /\ res = None

NextFloat == Cast \/ CastBack

SpecFloat == InitFloat /\ [][NextFloat]_vars

\* ------------------------------------------------------------------------
\* Properties
\* ------------------------------------------------------------------------

\* The scale of a over the scale of b, in lowest terms.
ScaleRatio(a, b) ==
  LET n == a.num * b.den
      d == a.den * b.num
  IN  [num |-> n \div GCD(n, d), den |-> d \div GCD(n, d)]

\* Physical lengths count * scale compared as rationals, cross-multiplied.
SameLength(a, b) ==
  a.count * ScaleRatio(a, b).num = b.count * ScaleRatio(a, b).den

Shorter(a, b) ==
  a.count * ScaleRatio(a, b).num < b.count * ScaleRatio(a, b).den

\* How many units of the greatest common scale of a and b make one unit of a.
Units(a, b) ==
  (a.num \div GCD(a.num, b.num)) * (LCM(a.den, b.den) \div a.den)

\* The count of a expressed in the greatest common scale of a and b.
InCommon(a, b) == a.count * Units(a, b)

\* Neither operand overflows when converted to the common type of a and b.
FitsCommon(a, b) ==
  /\ InRange(common_repr(a.repr, b.repr), InCommon(a, b))
  /\ InRange(common_repr(a.repr, b.repr), InCommon(b, a))

Cm(r, c) == distance(DType(r, ratio(1, 100)), c)

Mm(r, c) == distance(DType(r, ratio(1, 1000)), c)

M(r, c) == distance(DType(r, ratio(1, 1)), c)

Yd(r, c) == distance(DType(r, ratio(1143, 1250)), c)

\* C1: when neither conversion overflows, a == b is true exactly when a and b
\* have the same physical length (5_m == 500_cm); a == b agrees with b == a,
\* and a != b is the negation of a == b.
C1_EqualityIsPhysical ==
  /\ (op = "eq" /\ res.kind = "bool" /\ FitsCommon(lhs, arg.d)) =>
       /\ res.b = SameLength(lhs, arg.d)
       /\ op_eq(arg.d, lhs).b = res.b
       /\ op_ne(lhs, arg.d).b = ~res.b
  /\ (op = "ne" /\ res.kind = "bool" /\ FitsCommon(lhs, arg.d)) =>
       res.b = ~SameLength(lhs, arg.d)

C1_Witness ==
  /\ op = "eq"
  /\ lhs = M("ull", 5)
  /\ arg.d = Cm("ull", 500)
  /\ res.kind = "bool" /\ res.b

\* C2: the scale of the common type of two distances is gcd(n1, n2) /
\* lcm(d1, d2); both scales are positive integer multiples of it, and of no
\* greater scale (centimeter and meter give centimeter, 1143/1250 and 1/1
\* give 1/1250).
C2_CommonScaleIsGreatest ==
  (op \in {"add", "sub", "mod"} /\ res.kind = "distance") =>
    LET a == lhs
        b == arg.d
        c == res.d
        ka == (a.num * c.den) \div (a.den * c.num)
        kb == (b.num * c.den) \div (b.den * c.num)
    IN  /\ c.num = GCD(a.num, b.num)
        /\ c.den = LCM(a.den, b.den)
        /\ ka >= 1 /\ ka * a.den * c.num = a.num * c.den
        /\ kb >= 1 /\ kb * b.den * c.num = b.num * c.den
        \* a / m, for a smaller m, is a greater scale: b is no multiple of it
        /\ \A m \in 1 .. (ka - 1) : (b.num * a.den * m) % (b.den * a.num) # 0

C2_Witness ==
  /\ op = "add"
  /\ res.kind = "distance"
  /\ RatioOf(lhs) = ratio(1143, 1250)
  /\ RatioOf(arg.d) = ratio(1, 1)
  /\ RatioOf(res.d) = ratio(1, 1250)

\* C3: a + b and a - b are distances of the common type whose count is the sum
\* (difference) of the two counts converted to the common scale, in the
\* arithmetic of the common representation (1_cm + 5_m is 501 cm, 1_cm - 2_mm
\* is 8 mm).
C3_AddSubInCommonScale ==
  /\ (op = "add" /\ res.kind = "distance" /\ ~res.d.ub) =>
       /\ TypeOf(res.d) = DType(common_repr(lhs.repr, arg.d.repr),
                                ratio(GCD(lhs.num, arg.d.num), LCM(lhs.den, arg.d.den)))
       /\ res.d.count =
            static_cast(res.d.repr, InCommon(lhs, arg.d) + InCommon(arg.d, lhs))
  /\ (op = "sub" /\ res.kind = "distance" /\ ~res.d.ub) =>
       /\ TypeOf(res.d) = DType(common_repr(lhs.repr, arg.d.repr),
                                ratio(GCD(lhs.num, arg.d.num), LCM(lhs.den, arg.d.den)))
       /\ res.d.count =
            static_cast(res.d.repr, InCommon(lhs, arg.d) - InCommon(arg.d, lhs))

C3_Witness ==
  /\ op = "sub"
  /\ lhs = Cm("ull", 1)
  /\ arg.d = Mm("ull", 2)
  /\ res.kind = "distance"
  /\ res.d = Mm("ull", 8)

\* C5: when neither conversion overflows, a < b is true exactly when a is
\* physically shorter than b (5_cm < 1_m; d < d is false).
C5_OrderIsPhysical ==
  (op = "lt" /\ res.kind = "bool" /\ FitsCommon(lhs, arg.d)) =>
    /\ res.b = Shorter(lhs, arg.d)
    /\ (lhs = arg.d => ~res.b)

C5_Witness ==
  /\ op = "lt"
  /\ lhs = Cm("ull", 5)
  /\ arg.d = M("ull", 1)
  /\ res.kind = "bool" /\ res.b

\* The reduced ratio of a cast from fd to type To.
CastRatio(To, fd) == ScaleRatio(fd, To)

\* C4: distance_cast multiplies the count by the reduced ratio r of the two
\* scales and truncates, in the intermediate type CT, narrowing to the target
\* representation at the end: the count itself when r = 1/1, count / r.den
\* when r.num = 1, count * r.num when r.den = 1 and (count * r.num) / r.den
\* otherwise; a cast to the value's own type returns the same count.
C4_CastMultipliesByRatio ==
  (op = "cast" /\ res.kind = "distance" /\ ~res.d.ub) =>
    LET To == arg.t
        r  == CastRatio(To, lhs)
        CT == common_repr(common_repr(To.repr, lhs.repr), "intmax")
        c  == static_cast(CT, lhs.count)
        expected ==
          CASE r.num = 1 /\ r.den = 1 -> c
            [] r.num = 1 /\ r.den # 1 -> TruncDiv(c, r.den)
            [] r.num # 1 /\ r.den = 1 -> static_cast(CT, c * r.num)
            [] r.num # 1 /\ r.den # 1 -> TruncDiv(static_cast(CT, c * r.num), r.den)
    IN  /\ TypeOf(res.d) = To
        /\ res.d.count = static_cast(To.repr, expected)
        /\ (To = TypeOf(lhs) => res.d.count = lhs.count)

\* The value a cast from fd to To divides by the ratio's denominator: the
\* count, or the product narrowed to the target representation.
CastDividend(To, fd) ==
  LET r  == CastRatio(To, fd)
      CT == common_repr(common_repr(To.repr, fd.repr), "intmax")
      c  == static_cast(CT, fd.count)
  IN  IF r.num = 1 THEN c
      ELSE static_cast(CT, static_cast(To.repr, static_cast(CT, c * r.num)))

\* The division a cast from fd to To performs, if any, leaves no remainder.
CastExact(To, fd) ==
  CastRatio(To, fd).den = 1 \/ CastDividend(To, fd) % CastRatio(To, fd).den = 0

\* The count of fd and its product with the ratio's numerator are values of
\* the target representation: the cast wraps nothing.
CastFits(To, fd) ==
  /\ InRange(To.repr, fd.count)
  /\ InRange(To.repr, fd.count * CastRatio(To, fd).num)

\* C6 as claimed: a cast to another type and back returns the original count
\* whenever every division of the two casts is exact.
C6_RoundTripWhenExact ==
  (/\ op = "cast_back" /\ res.kind = "distance" /\ ~res.d.ub
   /\ CastExact(arg.t, lhs)
   /\ CastExact(TypeOf(lhs), mid.d)) =>
    res.d.count = lhs.count

\* C6: a cast to another type and back returns the original count whenever
\* every division of the two casts is exact and neither cast wraps a count or
\* a product.
C6_RoundTripWhenExactAndFits ==
  (/\ op = "cast_back" /\ res.kind = "distance" /\ ~res.d.ub
   /\ CastExact(arg.t, lhs)
   /\ CastExact(TypeOf(lhs), mid.d)
   /\ CastFits(arg.t, lhs)
   /\ CastFits(TypeOf(lhs), mid.d)) =>
    res.d.count = lhs.count

\* 500 cm cast to meters (a division) and back (a multiplication).
C6_Witness ==
  /\ op = "cast_back"
  /\ lhs = Cm("ull", 500)
  /\ arg.t = DType("int", ratio(1, 1))
  /\ mid.d = M("int", 5)
  /\ res.kind = "distance"
  /\ res.d = lhs

\* The float val lies within n units in the last place of the float orig.
WithinUlps(val, orig, n) ==
  IF val = orig THEN TRUE
  ELSE IF val[1] = 0 \/ orig[1] = 0 THEN FALSE
  ELSE LET lo == IF val[2] < orig[2] THEN val[2] ELSE orig[2]
       IN  /\ val[2] - lo <= 1
           /\ orig[2] - lo <= 1
           /\ Abs(val[1] * Pow2(val[2] - lo) - orig[1] * Pow2(orig[2] - lo))
                <= n * Pow2(orig[2] - lo)

\* The float nearest to 9.144: 9588179 * 2^-20 = 9.14400005340576171875.
Float9144 == <<9588179, 0 - 20>>

C8_ScalarMulCommutes ==
  (op \in {"mul", "mul_sd"} /\ res.kind = "distance" /\ ~res.d.ub) =>
    LET CR == common_repr(lhs.repr, arg.repr)
    IN  /\ TypeOf(res.d) = DType(CR, RatioOf(lhs))
        /\ res.d.count =
             static_cast(CR, static_cast(CR, lhs.count) * static_cast(CR, arg.v))
        /\ op_mul(lhs, arg) = op_mul_sd(arg, lhs)
        /\ op_eq(op_mul(lhs, arg).d, op_mul_sd(arg, lhs).d).b

C8_Witness ==
  /\ op = "mul_sd"
  /\ lhs = Cm("ull", 5)
  /\ arg = Scalar("int", 3)
  /\ res.kind = "distance"
  /\ res.d = Cm("ull", 15)

C10_Modulo ==
  /\ (op = "mod" /\ res.kind = "distance" /\ ~res.d.ub) =>
       LET CR == common_repr(lhs.repr, arg.d.repr)
       IN  /\ TypeOf(res.d) =
                DType(CR, ratio(GCD(lhs.num, arg.d.num), LCM(lhs.den, arg.d.den)))
           /\ res.d.count = TruncRem(static_cast(CR, InCommon(lhs, arg.d)),
                                     static_cast(CR, InCommon(arg.d, lhs)))
           /\ TypeOf(lhs) = TypeOf(arg.d) =>
                op_eq(res.d, op_mod_s(lhs, Scalar(arg.d.repr, arg.d.count)).d).b
  /\ (op = "mod_s" /\ res.kind = "distance" /\ ~res.d.ub) =>
       LET CR == common_repr(lhs.repr, arg.repr)
       IN  /\ TypeOf(res.d) = DType(CR, RatioOf(lhs))
           /\ res.d.count = TruncRem(static_cast(CR, lhs.count),
                                     static_cast(CR, arg.v))

C10_Witness ==
  /\ op = "mod"
  /\ lhs = Cm("ull", 5)
  /\ arg.kind = "distance"
  /\ arg.d = Cm("ull", 3)
  /\ res.kind = "distance"
  /\ res.d = Cm("ull", 2)

\* The quotient of the counts of a and b, converted to their common
\* representation, is representable in it (not the most negative count
\* divided by -1).
QuotientFits(a, b) ==
  LET CR == common_repr(a.repr, b.repr)
  IN  InRange(CR, TruncDiv(static_cast(CR, a.count), static_cast(CR, b.count)))

\* C11 as claimed: for a and b of one scale with b.count # 0,
\* a == (a / b) * b + (a % b) evaluates to true.
C11_DivisionIdentity ==
  (/\ op = "div_identity"
   /\ RatioOf(TypeOf(lhs)) = RatioOf(TypeOf(arg.d))
   /\ arg.d.count # 0) =>
    (res.kind = "bool" /\ res.b)

\* C11: for a and b of one scale with b.count # 0 and a quotient that is
\* representable in the common representation, a == (a / b) * b + (a % b)
\* evaluates to true.
C11_DivisionIdentityWhenQuotientFits ==
  (/\ op = "div_identity"
   /\ RatioOf(TypeOf(lhs)) = RatioOf(TypeOf(arg.d))
   /\ arg.d.count # 0
   /\ QuotientFits(lhs, arg.d)) =>
    (res.kind = "bool" /\ res.b)

\* 40 cm by 6 cm: 6 * 6 cm + 4 cm.
C11_Witness ==
  /\ op = "div_identity"
  /\ lhs = Cm("int", 40)
  /\ arg.d = Cm("int", 6)
  /\ mid.d = Cm("int", 40)
  /\ res.kind = "bool"
  /\ res.b

\* The scalar s evenly divides the count of a.
EvenlyDivides(s, a) == s.v # 0 /\ TruncRem(a.count, s.v) = 0

\* The count of a and the scalar s keep their values in the common
\* representation, and their quotient is representable in it.
ScalarDivisionFits(a, s) ==
  LET CR == common_repr(a.repr, s.repr)
  IN  /\ InRange(CR, a.count)
      /\ InRange(CR, s.v)
      /\ InRange(CR, TruncDiv(a.count, s.v))

\* C12 as claimed: for a non-zero scalar s that evenly divides a.count, a / s
\* is a distance of a's scale with count a.count / s, and (a / s) * s == a
\* evaluates to true.
C12_ScalarDivInvertsMul ==
  (op = "mul_back" /\ EvenlyDivides(arg, lhs)) =>
    /\ RatioOf(TypeOf(mid.d)) = RatioOf(TypeOf(lhs))
    /\ mid.d.count = TruncDiv(lhs.count, arg.v)
    /\ res.kind = "bool"
    /\ res.b

\* C12: for a non-zero scalar s that evenly divides a.count, where a.count, s
\* and their quotient are representable in the common representation of a and
\* s, a / s is a distance of a's scale with count a.count / s, and
\* (a / s) * s == a evaluates to true.
C12_ScalarDivInvertsMulWhenFits ==
  (op = "mul_back" /\ EvenlyDivides(arg, lhs) /\ ScalarDivisionFits(lhs, arg)) =>
    /\ RatioOf(TypeOf(mid.d)) = RatioOf(TypeOf(lhs))
    /\ mid.d.count = TruncDiv(lhs.count, arg.v)
    /\ res.kind = "bool"
    /\ res.b

\* 5_cm / 5 is 1 cm, and 1 cm * 5 == 5_cm.
C12_Witness ==
  /\ op = "mul_back"
  /\ lhs = Cm("ull", 5)
  /\ arg = Scalar("int", 5)
  /\ mid.d = Cm("ull", 1)
  /\ res.kind = "bool"
  /\ res.b

\* a + b without overflow: both counts, converted to the common scale, and
\* their sum are representable in the common representation.
SumFits(a, b) ==
  /\ FitsCommon(a, b)
  /\ InRange(common_repr(a.repr, b.repr), InCommon(a, b) + InCommon(b, a))

\* The sum of a and b as a distance of their common type.
ExactSum(a, b) ==
  distance(common_type(TypeOf(a), TypeOf(b)), InCommon(a, b) + InCommon(b, a))

\* C13: when no conversion and no addition overflows, a + b == b + a and
\* (a + b) + c == a + (b + c) evaluate to true, and the two sides have one
\* type (so one scale) whichever way the sum is ordered or grouped.
C13_AddCommutesAndAssociates ==
  /\ (op = "add_commute" /\ SumFits(lhs, arg.d)) =>
       /\ TypeOf(mid.l) = TypeOf(mid.r)
       /\ mid.l.count = mid.r.count
       /\ res.kind = "bool"
       /\ res.b
  /\ (/\ op = "add_assoc"
      /\ SumFits(lhs, arg.d)
      /\ SumFits(ExactSum(lhs, arg.d), mid.c)
      /\ SumFits(arg.d, mid.c)
      /\ SumFits(lhs, ExactSum(arg.d, mid.c))) =>
       /\ TypeOf(mid.l) = TypeOf(mid.r)
       /\ mid.l.count = mid.r.count
       /\ res.kind = "bool"
       /\ res.b

\* (1 cm + 5 m) + 2 mm and 1 cm + (5 m + 2 mm) are both 5012 mm.
C13_Witness ==
  /\ op = "add_assoc"
  /\ lhs = Cm("ull", 1)
  /\ arg.d = M("ull", 5)
  /\ mid.c = Mm("ull", 2)
  /\ mid.l = Mm("ull", 5012)
  /\ mid.r = Mm("ull", 5012)
  /\ SumFits(ExactSum(lhs, arg.d), mid.c)
  /\ SumFits(lhs, ExactSum(arg.d, mid.c))
  /\ res.kind = "bool"
  /\ res.b

\* C14: wherever the comparison with < is defined, a > b is b < a, a <= b is
\* the negation of b < a and a >= b is the negation of a < b; so d <= d and
\* d >= d are true and d > d is false for every d.
C14_DerivedFromLess ==
  /\ (op = "gt" /\ ~op_lt(arg.d, lhs).ub) =>
       (res.kind = "bool" /\ res.b = op_lt(arg.d, lhs).b)
  /\ (op = "le" /\ ~op_lt(arg.d, lhs).ub) =>
       (res.kind = "bool" /\ res.b = ~op_lt(arg.d, lhs).b)
  /\ (op = "ge" /\ ~op_lt(lhs, arg.d).ub) =>
       (res.kind = "bool" /\ res.b = ~op_lt(lhs, arg.d).b)
  /\ (op = "gt" /\ arg.d = lhs) => (res.kind = "bool" /\ ~res.b)
  /\ (op \in {"le", "ge"} /\ arg.d = lhs) => (res.kind = "bool" /\ res.b)

\* 5 cm > 1 m is false, because 1 m < 5 cm is false.
C14_Witness ==
  /\ op = "gt"
  /\ lhs = Cm("ull", 5)
  /\ arg.d = M("ull", 1)
  /\ ~op_lt(arg.d, lhs).b
  /\ res.kind = "bool"
  /\ ~res.b

\* C15 as claimed: a floating-point count is rejected by a distance of integer
\* representation, and a count of another type is accepted only when it is
\* convertible and, for a non-float representation, not floating-point.
C15_FloatIntoIntegerRejected ==
  (op = "construct") =>
    /\ (IsFloat(arg.repr) /\ ~IsFloat(lhs.repr)) => res.kind = "rejected"
    /\ (res.kind # "rejected" /\ arg.repr # lhs.repr) =>
         /\ is_convertible(arg.repr, lhs.repr)
         /\ (IsFloat(lhs.repr) \/ ~IsFloat(arg.repr))

\* C16 as claimed: a distance of integer representation accepts a count of
\* another integer type only if the count is representable in its
\* representation.
C16_OnlyLosslessAccepted ==
  (/\ op = "construct"
   /\ arg.repr \in Reprs
   /\ lhs.repr \in Reprs
   /\ arg.repr # lhs.repr
   /\ res.kind = "distance") =>
    InRange(lhs.repr, arg.v)

\* C16: a distance accepts a count of every integer type, representable or
\* not; a distance of integer representation holds the count converted modulo
\* 2^w (w the width of its representation), a distance of float representation
\* holds its float; a count of a type that is not convertible is rejected.
C16_IntegerCountConverted ==
  (op = "construct") =>
    /\ (arg.repr \in Reprs /\ lhs.repr \in Reprs) =>
         /\ res.kind = "distance"
         /\ TypeOf(res.d) = TypeOf(lhs)
         /\ InRange(lhs.repr, res.d.count)
         /\ (res.d.count - arg.v) % Pow2(Bits(lhs.repr)) = 0
    /\ (arg.repr \in Reprs /\ IsFloat(lhs.repr)) =>
         /\ res.kind = "distance"
         /\ res.d.count = FromInt(arg.v)
    /\ (arg.repr = "pointer") => res.kind = "rejected"

\* centimeters<unsigned long long>(-1) holds the largest count.
C16_Witness ==
  /\ op = "construct"
  /\ TypeOf(lhs) = DType("ull", ratio(1, 100))
  /\ arg = Value("int", 0 - 1)
  /\ res.kind = "distance"
  /\ res.d.count = MaxOf("ull")

\* The count c moved by k in the arithmetic of representation r.
Moved(r, c, k) == static_cast(r, c + k)

\* The last call and the distance it returned.
LastCall == mid[Len(mid)]

\* C17: where the new count is defined (no signed overflow), d++ and d--
\* return a distance of d's type holding the count from before and leave d
\* with count + 1 and count - 1 (in the arithmetic of the representation),
\* ++d and --d return d with the new count; from 40_cm the calls d++, ++d, --d,
\* d-- return 40, 42, 41 and 41 cm and leave d at 40 cm.
C17_IncrementDecrement ==
  (op \in StepOps /\ res.kind = "distance" /\ ~lhs.ub) =>
    /\ TypeOf(res.d) = TypeOf(lhs)
    /\ TypeOf(lhs) = TypeOf(LastCall.before)
    /\ op = "post_inc" =>
         /\ res.d.count = LastCall.before.count
         /\ lhs.count = Moved(lhs.repr, LastCall.before.count, 1)
    /\ op = "pre_inc" =>
         /\ lhs.count = Moved(lhs.repr, LastCall.before.count, 1)
         /\ res.d.count = lhs.count
    /\ op = "pre_dec" =>
         /\ lhs.count = Moved(lhs.repr, LastCall.before.count, 0 - 1)
         /\ res.d.count = lhs.count
    /\ op = "post_dec" =>
         /\ res.d.count = LastCall.before.count
         /\ lhs.count = Moved(lhs.repr, LastCall.before.count, 0 - 1)
    /\ (/\ Len(mid) = 4
        /\ mid[1].before = Cm("ull", 40)
        /\ <<mid[1].o, mid[2].o, mid[3].o, mid[4].o>>
             = <<"post_inc", "pre_inc", "pre_dec", "post_dec">>) =>
         /\ <<mid[1].ret.d, mid[2].ret.d, mid[3].ret.d, mid[4].ret.d>>
              = <<Cm("ull", 40), Cm("ull", 42), Cm("ull", 41), Cm("ull", 41)>>
         /\ lhs = Cm("ull", 40)

\* d4++, ++d4, --d4, d4-- from 40_cm.
C17_Witness ==
  /\ op = "post_dec"
  /\ Len(mid) = 4
  /\ mid[1].before = Cm("ull", 40)
  /\ <<mid[1].o, mid[2].o, mid[3].o, mid[4].o>>
       = <<"post_inc", "pre_inc", "pre_dec", "post_dec">>
  /\ <<mid[1].ret.d, mid[2].ret.d, mid[3].ret.d, mid[4].ret.d>>
       = <<Cm("ull", 40), Cm("ull", 42), Cm("ull", 41), Cm("ull", 41)>>
  /\ lhs = Cm("ull", 40)

\* The value of the binary operation matching the compound assignment o,
\* applied to d and the operand x.
Matching(o, d, x) ==
  CASE o = "add_assign"   -> op_add(d, x.d)
    [] o = "sub_assign"   -> op_sub(d, x.d)
    [] o = "mul_assign"   -> op_mul(d, x)
    [] o = "div_assign"   -> op_div_s(d, x)
    [] o = "mod_assign_s" -> op_mod_s(d, x)
    [] o = "mod_assign"   -> op_mod(d, x.d)

\* The operand of a compound assignment has the type of the receiver: a
\* distance of its type, or a scalar of its representation.
SameTypeOperand == arg.kind = "distance" \/ arg.repr = lhs.repr

\* After a compound assignment on same-type operands whose evaluation is
\* defined, the receiver is the result of the matching binary operation on the
\* receiver as it was, and the call returns the receiver.
AssignMatchesBinary ==
  (op \in AssignOps /\ res.kind = "distance" /\ ~lhs.ub /\ SameTypeOperand) =>
    /\ lhs = Matching(op, LastCall.before, arg).d
    /\ res.d = lhs

\* The calls so far are o1 then o2.
CallsAre(o1, o2) == Len(mid) = 2 /\ mid[1].o = o1 /\ mid[2].o = o2

\* d *= s; d /= s restores d when s # 0 and the product does not overflow.
MulDivRestores ==
  (/\ op = "div_assign" /\ CallsAre("mul_assign", "div_assign")
   /\ SameTypeOperand
   /\ arg.v # 0
   /\ InRange(lhs.repr, mid[1].before.count * arg.v)) =>
    (res.kind = "distance" /\ lhs = mid[1].before)

\* C18 as claimed: each compound assignment leaves the result of the matching
\* binary operation in the receiver and returns it; d += x; d -= x restores d;
\* d *= s; d /= s restores d when s # 0 and the product does not overflow.
C18_CompoundAssignment ==
  /\ AssignMatchesBinary
  /\ MulDivRestores
  /\ (op = "sub_assign" /\ CallsAre("add_assign", "sub_assign")) =>
       (res.kind = "distance" /\ lhs.count = mid[1].before.count)

\* C18: each compound assignment leaves the result of the matching binary
\* operation in the receiver and returns it; d += x; d -= x restores d when
\* the representation is unsigned or the sum is representable; d *= s; d /= s
\* restores d when s # 0 and the product does not overflow.
C18_CompoundAssignmentWhenDefined ==
  /\ AssignMatchesBinary
  /\ MulDivRestores
  /\ (/\ op = "sub_assign" /\ CallsAre("add_assign", "sub_assign")
      /\ (~IsSigned(lhs.repr)
            \/ InRange(lhs.repr, mid[1].before.count + arg.d.count))) =>
       (res.kind = "distance" /\ lhs = mid[1].before)

\* d4 += 3_cm leaves 43 cm and d4 -= 3_cm leaves 40 cm again.
C18_Witness ==
  /\ op = "sub_assign"
  /\ CallsAre("add_assign", "sub_assign")
  /\ arg.d = Cm("ull", 3)
  /\ mid[1].before = Cm("ull", 40)
  /\ mid[1].ret.d = Cm("ull", 43)
  /\ res.d = lhs
  /\ lhs = Cm("ull", 40)

\* The divisor of the division or modulo just applied, as the operation
\* divides by it: the scalar converted to the common representation, or the
\* count of the distance converted to the common type.
ConvertedDivisor ==
  IF arg.kind = "scalar"
    THEN static_cast(common_repr(lhs.repr, arg.repr), arg.v)
  ELSE static_cast(common_repr(lhs.repr, arg.d.repr), InCommon(arg.d, lhs))

DivisionOps == {"div_s", "mod_s", "div", "mod"}

\* The integral part of a float is no value of the integer representation r.
IntegralPartOverflows(r, x) ==
  IF x[2] >= 0 THEN x[1] * Pow2(x[2]) > MaxOf(r)
  ELSE 0 - x[2] < FloatDigits /\ x[1] \div Pow2(0 - x[2]) > MaxOf(r)

\* Some count of the operation just applied is no value of the
\* representation it is computed in or converted to.
Overflows ==
  CASE op = "construct" ->
         IsFloat(arg.repr) /\ ~IsFloat(lhs.repr) /\ IntegralPartOverflows(lhs.repr, arg.v)
    [] op = "cast" -> ~CastFits(arg.t, lhs)
    [] op \in {"eq", "ne", "lt", "gt", "le", "ge"} -> ~FitsCommon(lhs, arg.d)
    [] op = "add" -> ~SumFits(lhs, arg.d)
    [] op = "sub" ->
         \/ ~FitsCommon(lhs, arg.d)
         \/ ~InRange(common_repr(lhs.repr, arg.d.repr),
                     InCommon(lhs, arg.d) - InCommon(arg.d, lhs))
    [] op \in {"mul", "mul_sd"} ->
         LET CR == common_repr(lhs.repr, arg.repr)
         IN  ~(InRange(CR, lhs.count) /\ InRange(CR, arg.v)
                 /\ InRange(CR, lhs.count * arg.v))
    [] op \in {"div_s", "mod_s"} -> arg.v # 0 /\ ~ScalarDivisionFits(lhs, arg)
    [] op \in {"div", "mod"} ->
         \/ ~FitsCommon(lhs, arg.d)
         \/ /\ arg.d.count # 0
            /\ ~InRange(common_repr(lhs.repr, arg.d.repr),
                        TruncDiv(InCommon(lhs, arg.d), InCommon(arg.d, lhs)))
    [] op \in {"post_inc", "pre_inc"} -> ~InRange(lhs.repr, LastCall.before.count + 1)
    [] op \in {"pre_dec", "post_dec"} -> ~InRange(lhs.repr, LastCall.before.count - 1)
    [] OTHER -> FALSE

\* C19 as claimed: an operation fails at run time only if it is a division or
\* a modulo whose divisor, a scalar or the count of a distance, is zero.
C19_OnlyZeroDivisorFails ==
  (res = Fault) =>
    /\ op \in DivisionOps
    /\ (IF arg.kind = "scalar" THEN arg.v ELSE arg.d.count) = 0

\* What the division or modulo just applied evaluates to, before the caller
\* observes it.
DivisionResult ==
  CASE op = "div_s" -> op_div_s(lhs, arg)
    [] op = "mod_s" -> op_mod_s(lhs, arg)
    [] op = "div"   -> op_div(lhs, arg.d)
    [] op = "mod"   -> op_mod(lhs, arg.d)

\* C19: an operation fails at run time only if it is a division or a modulo
\* whose divisor is zero as converted to the common type, or if one of its
\* counts overflows the representation it is computed in; and a division or
\* modulo whose converted divisor is zero reaches the native division
\* unguarded, so that a fault is among its outcomes.
C19_FailsOnlyOnZeroDivisorOrOverflow ==
  /\ (res = Fault) => ((op \in DivisionOps /\ ConvertedDivisor = 0) \/ Overflows)
  /\ (op \in DivisionOps /\ ConvertedDivisor = 0) =>
       Fault \in Outcomes(DivisionResult)

\* 5 cm divided by the scalar 0 faults.
C19_Witness ==
  /\ op = "div_s"
  /\ lhs = Cm("ull", 5)
  /\ arg = Scalar("int", 0)
  /\ res = Fault

\* The symbol of a scale that is one of the eight standard scales, and the
\* empty text for every other scale.
UnitSymbol(q) ==
  CASE q = ratio(1, 1000000000) -> "nm"
    [] q = ratio(1, 1000000)    -> "um"
    [] q = ratio(1, 1000)       -> "mm"
    [] q = ratio(1, 100)        -> "cm"
    [] q = ratio(1, 10)         -> "dm"
    [] q = ratio(1, 1)          -> "m"
    [] q = ratio(1000, 1)       -> "km"
    [] q = ratio(1000000, 1)    -> "Mm"
    [] OTHER                    -> ""

IsStandardScale(q) == UnitSymbol(q) # ""

\* `<count> <unit-symbol>` for a standard scale, `<count> <num>/<den> m` for
\* every other scale, the count, the numerator and the denominator in decimal.
Rendering(d) ==
  IF IsStandardScale(RatioOf(d))
    THEN PutInteger(count(d)) \o " " \o UnitSymbol(RatioOf(d))
  ELSE PutInteger(count(d)) \o " " \o PutInteger(d.num) \o "/"
         \o PutInteger(d.den) \o " m"

\* The finer of two scales.
Finer(q1, q2) == IF q1.num * q2.den <= q2.num * q1.den THEN q1 ELSE q2

\* A sum or a difference written to a stream is rendered by its scale, which
\* is the common scale of the operands: the finer one of two standard scales.
SumRenderedInCommonUnit ==
  (op \in {"format_sum", "format_diff"} /\ res # Fault) =>
    /\ res = Text(Rendering(mid.d))
    /\ RatioOf(mid.d) = ratio_gcd(RatioOf(lhs), RatioOf(arg.d))
    /\ (IsStandardScale(RatioOf(lhs)) /\ IsStandardScale(RatioOf(arg.d))) =>
         RatioOf(mid.d) = Finer(RatioOf(lhs), RatioOf(arg.d))

\* C20 as claimed: a distance written to a stream is rendered as
\* `<count> <unit-symbol>` when its scale is one of the eight standard scales
\* and as `<count> <numerator>/<denominator> m` for every other scale, and a
\* sum or difference of two standard-unit distances with the symbol of the
\* finer unit.
C20_Formatting ==
  /\ (op = "format") => res = Text(Rendering(lhs))
  /\ SumRenderedInCommonUnit

\* C20 for the types the claim is true of: a distance whose representation is
\* no character type and whose ratio is written in lowest terms is rendered as
\* claimed, and so is every sum and difference; a count of a character type
\* is written as the character with that code, and a standard scale written
\* with a common factor is rendered by the fallback.
C20_FormattingOfReducedNumericTypes ==
  /\ (op = "format" /\ ~IsCharacter(lhs.repr) /\ mid.W = WrittenOf(RatioOf(lhs))) =>
       res = Text(Rendering(lhs))
  /\ (op = "format" /\ IsCharacter(lhs.repr) /\ mid.W = Written(1, 100)) =>
       res = Text(Chr(count(lhs)) \o " cm")
  /\ (op = "format" /\ ~IsCharacter(lhs.repr) /\ mid.W # WrittenOf(RatioOf(lhs))) =>
       res = Text(PutInteger(count(lhs)) \o " " \o PutInteger(lhs.num) \o "/"
                    \o PutInteger(lhs.den) \o " m")
  /\ SumRenderedInCommonUnit

\* distance<signed char, std::centi>(65) is written as "A cm".
C20_Witness ==
  /\ op = "format"
  /\ lhs = distance(DType("schar", ratio(1, 100)), 65)
  /\ mid.W = Written(1, 100)
  /\ res = Text("A cm")

\* distance<int, std::ratio<2, 200>>(5) is written as "5 1/100 m".
C20_UnreducedWitness ==
  /\ op = "format"
  /\ lhs = Cm("int", 5)
  /\ mid.W = Written(2, 200)
  /\ res = Text("5 1/100 m")

\* 1_cm - 2_mm is written as "8 mm" and 1_cm + 5_m as "501 cm".
C20_ExampleWitness ==
  \/ /\ op = "format_diff"
     /\ lhs = Cm("ull", 1)
     /\ arg.d = Mm("ull", 2)
     /\ res = Text("8 mm")
  \/ /\ op = "format_sum"
     /\ lhs = Cm("ull", 1)
     /\ arg.d = M("ull", 5)
     /\ res = Text("501 cm")

\* The number of values of an unsigned representation r: 2^w.
Modulus(r) == Pow2(Bits(r))

\* C21: counts of an unsigned representation of width w are combined modulo
\* 2^w: a distance constructed from -1 holds 2^w - 1; a sum or difference of
\* two unsigned distances is a distance whose count is the sum or difference
\* of the converted counts modulo 2^w, never an error; 2^w - 1 plus 1 in the
\* same unit equals count 0, and a smaller minus a larger distance of one unit
\* holds the large positive count 2^w - (larger - smaller).
C21_UnsignedWraps ==
  /\ (op = "construct" /\ lhs.repr = "ull" /\ arg.repr = "int" /\ arg.v = 0 - 1) =>
       /\ res.kind = "distance"
       /\ res.d.count = Modulus("ull") - 1
  /\ (op \in {"add", "sub"} /\ lhs.repr = "ull" /\ arg.d.repr = "ull") =>
       /\ res.kind = "distance"
       /\ res.d.repr = "ull"
       /\ res.d.count \in 0 .. Modulus("ull") - 1
       /\ res.d.count =
            (IF op = "add" THEN InCommon(lhs, arg.d) + InCommon(arg.d, lhs)
             ELSE InCommon(lhs, arg.d) - InCommon(arg.d, lhs)) % Modulus("ull")
  /\ (/\ op = "add" /\ lhs.repr = "ull" /\ TypeOf(arg.d) = TypeOf(lhs)
      /\ lhs.count = Modulus("ull") - 1 /\ arg.d.count = 1) =>
       /\ res.d.count = 0
       /\ op_eq(res.d, distance(TypeOf(lhs), 0)).b
  /\ (/\ op = "sub" /\ lhs.repr = "ull" /\ TypeOf(arg.d) = TypeOf(lhs)
      /\ lhs.count < arg.d.count) =>
       /\ res.d.count = Modulus("ull") - (arg.d.count - lhs.count)
       /\ res.d.count > 0

\* centimeters<unsigned long long>(-1) + 1_cm is 0 cm.
C21_Witness ==
  /\ op = "add"
  /\ lhs = Cm("ull", 0 - 1)
  /\ lhs.count = Modulus("ull") - 1
  /\ arg.d = Cm("ull", 1)
  /\ res.d = Cm("ull", 0)

\* A distance type that keeps the invariants: an arithmetic representation
\* and a scale whose numerator and denominator are positive.
ValidType(t) ==
  /\ t.repr \in {"int", "intmax", "ull", "float"}
  /\ t.num > 0
  /\ t.den > 0

\* C22: a declared distance type is accepted exactly when its representation
\* is no distance (in any cv-qualification) and its scale N/D is positive, and
\* an accepted type has a positive numerator and denominator; the common type
\* of two distances and the result types of +, -, %, scalar *, scalar / and
\* scalar % have an arithmetic representation and a positive numerator and
\* denominator again.
C22_TypeInvariants ==
  /\ (op = "declare") =>
       /\ res.kind \in {"type", "rejected"}
       /\ (res.kind = "type") <=>
            (arg.Repr.kind # "distance" /\ arg.D # 0 /\ arg.N * arg.D > 0)
       /\ (res.kind = "type") =>
            /\ ValidType(res.t)
            /\ res.t.num * Abs(arg.D) = res.t.den * Abs(arg.N)
  /\ (op = "common_type") =>
       /\ ValidType(res.t)
       /\ res.t = TypeOf(op_add(lhs, arg.d).d)
  /\ (op \in {"add", "sub", "mod", "mul", "mul_sd", "div_s", "mod_s"}
        /\ res.kind = "distance") =>
       ValidType(TypeOf(res.d))

\* distance<const distance<int>, std::centi> is rejected.
C22_Witness ==
  /\ op = "declare"
  /\ arg.Repr = DistanceRepr("const", DType("int", ratio(1, 1)))
  /\ arg.N = 1
  /\ arg.D = 100
  /\ res = [kind |-> "rejected"]

\* distance<int, std::ratio<-1, -100>> is accepted, with the scale 1/100.
C22_AcceptedWitness ==
  /\ op = "declare"
  /\ arg.Repr = ArithmeticRepr("int")
  /\ arg.N = 0 - 1
  /\ arg.D = 0 - 100
  /\ res = [kind |-> "type", t |-> DType("int", ratio(1, 100))]

\* The caller has just evaluated 5_cm / 5, the literal 5_cm being
\* centimeters<unsigned long long>(5) and the scalar an int.
FiveCmByFive ==
  op = "div_s" /\ lhs = Cm("ull", 5) /\ arg = Scalar("int", 5)

CastFitsAtEnd ==
  LET r  == CastRatio(arg.t, lhs)
      CT == common_repr(common_repr(arg.t.repr, lhs.repr), "intmax")
  IN  /\ op = "cast"
      /\ ~(r.num = 1 /\ r.den = 1)
      /\ InRange(CT, lhs.count)
      /\ InRange(CT, lhs.count * r.num)
      /\ InRange(arg.t.repr, TruncDiv(lhs.count * r.num, r.den))

\* C24 as claimed: a non-identity cast computes in the widened intermediate
\* type and narrows only at the very end, so a cast whose final result fits
\* the target representation returns (count * num) / den even when the
\* product count * num exceeds the range of the source or the target
\* representation.
C24_NarrowedOnlyAtEnd ==
  CastFitsAtEnd =>
    /\ res.kind = "distance"
    /\ res.d.count = TruncDiv(lhs.count * CastRatio(arg.t, lhs).num,
                              CastRatio(arg.t, lhs).den)

\* C24 for the divide-only and the multiply-only path, which do narrow only at
\* the very end (the multiply-then-divide path narrows the product to the
\* target representation before it divides).
C24_NarrowedAtEndUnlessMulDiv ==
  (CastFitsAtEnd /\ (CastRatio(arg.t, lhs).num = 1 \/ CastRatio(arg.t, lhs).den = 1)) =>
    /\ res.kind = "distance"
    /\ res.d.count = TruncDiv(lhs.count * CastRatio(arg.t, lhs).num,
                              CastRatio(arg.t, lhs).den)

\* yards<int>(1) cast to centimeters<int>: 1 * 2286 / 25 is 91, which fits the
\* target, and the cast returns another count.
C24_Witness ==
  /\ CastFitsAtEnd
  /\ lhs = Yd("int", 1)
  /\ arg.t = DType("int", ratio(1, 100))
  /\ TruncDiv(lhs.count * CastRatio(arg.t, lhs).num, CastRatio(arg.t, lhs).den) = 91
  /\ res.kind = "distance"
  /\ res.d.count # 91

\* The float x in units of 2^-24, for an x that is a multiple of 2^-24 below
\* 128 (every count of TolerantCounts is one).
Units24(x) ==
  IF x[1] = 0 THEN 0
  ELSE IF x[2] + FloatDigits >= 0 THEN x[1] * Pow2(x[2] + FloatDigits)
  ELSE x[1] \div Pow2(0 - (x[2] + FloatDigits))

\* The count of a converted to the common type of a and b.
CommonCount(a, b) == count(distance_cast(common_type(TypeOf(a), TypeOf(b)), a))

\* The comparison just made had operands of one type.
SameTypeOperands == arg.kind = "distance" /\ TypeOf(lhs) = TypeOf(arg.d)

\* C25: == on two distances of one type with a floating-point representation
\* is true exactly when the counts differ by at most the epsilon of float
\* (2^-23); on two distances of one type with an integer representation it is
\* true exactly when the counts are the same; on operands of different types
\* it is true exactly when the counts converted to the common type are the
\* same. In the exact variant == on operands of one type is true exactly when
\* the counts are the same, whatever the representation.
C25_FloatTolerantEquality ==
  /\ (op = "eq" /\ SameTypeOperands /\ IsFloat(lhs.repr)) =>
       /\ res.kind = "bool"
       /\ res.b <=> Abs(Units24(lhs.count) - Units24(arg.d.count)) <= Units24(epsilon)
  /\ (op = "eq" /\ SameTypeOperands /\ ~IsFloat(lhs.repr)) =>
       /\ res.kind = "bool"
       /\ res.b <=> (lhs.count = arg.d.count)
  /\ (op = "eq" /\ ~SameTypeOperands /\ IsFloat(lhs.repr)) =>
       /\ res.kind = "bool"
       /\ res.b <=> (CommonCount(lhs, arg.d) = CommonCount(arg.d, lhs))
  /\ (op = "eq" /\ ~SameTypeOperands /\ ~IsFloat(lhs.repr) /\ res.kind = "bool") =>
       (FitsCommon(lhs, arg.d) => (res.b <=> (InCommon(lhs, arg.d) = InCommon(arg.d, lhs))))
  /\ (op = "eq_exact" /\ SameTypeOperands) =>
       /\ res.kind = "bool"
       /\ res.b <=> (lhs.count = arg.d.count)

\* 1 cm and (1 + 2^-23) cm, both float, are different counts that compare
\* equal.
C25_Witness ==
  /\ op = "eq"
  /\ lhs = distance(DType("float", ratio(1, 100)), FromInt(1))
  /\ arg.d = distance(DType("float", ratio(1, 100)),
                      <<Pow2(FloatDigits - 1) + 1, 1 - FloatDigits>>)
  /\ lhs.count # arg.d.count
  /\ res.kind = "bool" /\ res.b

\* The same operands are not equal in the exact variant.
C25_ExactWitness ==
  /\ op = "eq_exact"
  /\ lhs = distance(DType("float", ratio(1, 100)), FromInt(1))
  /\ arg.d = distance(DType("float", ratio(1, 100)),
                      <<Pow2(FloatDigits - 1) + 1, 1 - FloatDigits>>)
  /\ res.kind = "bool" /\ ~res.b

\* 0 m and 2^-24 cm, both float, differ by less than epsilon once converted to
\* centimeters and are not equal.
C25_CrossTypeWitness ==
  /\ op = "eq"
  /\ lhs = distance(DType("float", ratio(1, 1)), FromInt(0))
  /\ arg.d = distance(DType("float", ratio(1, 100)), FNorm(1, 0 - FloatDigits))
  /\ FLess(CommonCount(arg.d, lhs), epsilon)
  /\ res.kind = "bool" /\ ~res.b

\* The operators that convert both operands to the common type.
CrossUnitOps == {"eq", "ne", "lt", "add", "sub", "div", "mod"}

\* The conversion of d to the type CT is the identity or the multiply path,
\* and when the product fits CT's representation the converted count is
\* count * num, the same physical length.
ConvertedWithoutDividing(d, CT) ==
  LET r == ratio_divide(RatioOf(d), RatioOf(CT))
      c == distance_cast(CT, d)
  IN  /\ r.den = 1
      /\ c = IF r.num = 1 THEN __distance_cast_id(CT, d)
             ELSE __distance_cast_mul(CT, d, r)
      /\ InRange(CT.repr, count(d) * r.num) =>
           /\ ~c.ub
           /\ count(c) = count(d) * r.num
           /\ SameLength(c, d)

\* C26: in a cross-unit ==, !=, <, +, -, / or % the ratio of either operand's
\* scale to the common scale has denominator 1, so each operand is converted
\* by the identity or the multiply path, and a conversion that does not
\* overflow keeps the operand's physical length exactly.
C26_CommonScaleNeverDivides ==
  (op \in CrossUnitOps /\ arg.kind = "distance") =>
    LET CT == common_type(TypeOf(lhs), TypeOf(arg.d))
    IN  /\ ConvertedWithoutDividing(lhs, CT)
        /\ ConvertedWithoutDividing(arg.d, CT)

\* 1 m + 1 yd: the common scale is 1/1250, the meter is multiplied by 1250 and
\* the yard by 1143.
C26_Witness ==
  /\ op = "add"
  /\ lhs = M("ull", 1)
  /\ arg.kind = "distance"
  /\ arg.d = Yd("ull", 1)
  /\ ratio_divide(RatioOf(lhs), RatioOf(common_type(TypeOf(lhs), TypeOf(arg.d))))
       = [num |-> 1250, den |-> 1]
  /\ ratio_divide(RatioOf(arg.d), RatioOf(common_type(TypeOf(lhs), TypeOf(arg.d))))
       = [num |-> 1143, den |-> 1]
  /\ res.kind = "distance"
  /\ res.d.count = 2393

\* The cast just applied goes to a coarser unit (the ratio is below 1), the
\* count and its product with the ratio's numerator are values of the
\* intermediate type, and the truncated quotient is a value of the target
\* representation.
CoarserCastFits ==
  LET r  == CastRatio(arg.t, lhs)
      CT == CastCT(arg.t, lhs)
  IN  /\ op = "cast"
      /\ r.num < r.den
      /\ InRange(CT, lhs.count)
      /\ InRange(CT, lhs.count * r.num)
      /\ InRange(arg.t.repr, TruncDiv(lhs.count * r.num, r.den))

\* q is c * n / d with the fraction dropped: toward zero from either side.
TruncatedTowardZero(q, c, n, d) ==
  /\ c >= 0 => (0 <= c * n - q * d /\ c * n - q * d < d)
  /\ c < 0  => (0 - d < c * n - q * d /\ c * n - q * d <= 0)

\* C27 as claimed: a cast to a coarser unit with integer representations,
\* through the divide-only or the multiply-then-divide path, truncates toward
\* zero: for a count c >= 0 and the ratio n/d the result q satisfies
\* 0 <= c*n - q*d < d, and for c < 0 it is rounded up toward zero.
C27_CoarserCastTruncates ==
  CoarserCastFits =>
    /\ res.kind = "distance"
    /\ TruncatedTowardZero(res.d.count, lhs.count,
                           CastRatio(arg.t, lhs).num, CastRatio(arg.t, lhs).den)

\* C27 for the divide-only path (a ratio 1/d): the result q satisfies
\* 0 <= c - q*d < d for c >= 0 and is rounded up toward zero for c < 0;
\* 1999 mm casts to 1 m, as 1000 mm does, and -1999 mm to -1 m.
C27_DivideOnlyTruncates ==
  /\ (CoarserCastFits /\ CastRatio(arg.t, lhs).num = 1) =>
       /\ res.kind = "distance"
       /\ TruncatedTowardZero(res.d.count, lhs.count, 1, CastRatio(arg.t, lhs).den)
  /\ count(distance_cast(DType("ull", ratio(1, 1)), Mm("ull", 1999))) = 1
  /\ count(distance_cast(DType("ull", ratio(1, 1)), Mm("ull", 1000))) = 1
  /\ count(distance_cast(DType("intmax", ratio(1, 1)), Mm("intmax", 0 - 1999))) = 0 - 1

\* 2 yd cast to meters<int>: 2 * 1143 / 1250 is 1, which fits the target, and
\* the cast returns another count.
C27_Witness ==
  /\ CoarserCastFits
  /\ lhs = Yd("int", 2)
  /\ arg.t = DType("int", ratio(1, 1))
  /\ res.kind = "distance"
  /\ res.d.count # 1

\* 5 mm and 6 mm are distinct and both cast to 0 cm.
C27_MergedWitness ==
  /\ op = "cast"
  /\ lhs = Mm("int", 6)
  /\ arg.t = DType("int", ratio(1, 100))
  /\ res.kind = "distance"
  /\ res.d.count = 0
  /\ res.d = distance_cast(arg.t, Mm("int", 5))

\* Both conversions to the common type of a and b are defined (no signed
\* count overflows).
ComparisonDefined(a, b) ==
  LET CT == common_type(TypeOf(a), TypeOf(b))
  IN  ~distance_cast(CT, a).ub /\ ~distance_cast(CT, b).ub

\* How many of the booleans of the sequence s are true.
RECURSIVE CountTrue(_)
CountTrue(s) ==
  IF s = <<>> THEN 0 ELSE (IF Head(s) THEN 1 ELSE 0) + CountTrue(Tail(s))

\* C28: for two distances a, b with integer representations whose comparison
\* is defined, exactly one of a < b, a == b, a > b is true, and a <= b is true
\* exactly when a < b or a == b.
C28_Trichotomy ==
  (op \in {"lt", "eq", "gt", "le"} /\ ComparisonDefined(lhs, arg.d)) =>
    LET l == op_lt(lhs, arg.d).b
        e == op_eq(lhs, arg.d).b
        g == op_gt(lhs, arg.d).b
    IN  /\ res.kind = "bool"
        /\ CountTrue(<<l, e, g>>) = 1
        /\ op = "lt" => res.b = l
        /\ op = "eq" => res.b = e
        /\ op = "gt" => res.b = g
        /\ op = "le" => (res.b <=> (l \/ e))

\* 5 cm <= 1 m is true: 5 cm < 1 m is, 5 cm == 1 m and 5 cm > 1 m are not.
C28_Witness ==
  /\ op = "le"
  /\ lhs = Cm("ull", 5)
  /\ arg.d = M("ull", 1)
  /\ ComparisonDefined(lhs, arg.d)
  /\ op_lt(lhs, arg.d).b /\ ~op_eq(lhs, arg.d).b /\ ~op_gt(lhs, arg.d).b
  /\ res.kind = "bool" /\ res.b

\* centimeters<int>(-1) > centimeters<unsigned long long>(1): the common
\* representation is unsigned, and still exactly one of the three holds.
C28_MixedSignWitness ==
  /\ op = "gt"
  /\ lhs = Cm("int", 0 - 1)
  /\ arg.d = Cm("ull", 1)
  /\ ComparisonDefined(lhs, arg.d)
  /\ res.kind = "bool" /\ res.b

\* The operations that do not mutate: the accessor, the cast, construction of
\* another value, the relational and the binary arithmetic operators, and
\* formatting.
NonMutatingOps ==
  ImmutableOps \cup {"eq", "format", "format_sum", "format_diff"}

\* C29: count(), distance_cast, every relational operator, binary +, -, *, /,
\* % and formatting leave both operands as they are; ++, --, +=, -=, *=, /=
\* and %= leave the right-hand operand as it is and change nothing of the
\* receiver but its count; and no operation of the immutable variant changes
\* an operand.
C29_FrameEffects ==
  [][/\ op' \in NonMutatingOps => (lhs' = lhs /\ arg' = arg)
     /\ op' \in StepOps \cup AssignOps =>
          (arg' = arg /\ TypeOf(lhs') = TypeOf(lhs))
     /\ op' \in ImmutableOps => op' \notin StepOps \cup AssignOps
     /\ op' \in NonMutatingOps \cup StepOps \cup AssignOps]_vars

\* 5 cm += 5 cm: the receiver holds 10 cm, the right-hand operand still 5 cm.
C29_Witness ==
  /\ op = "add_assign"
  /\ Len(mid) = 1
  /\ mid[1].before = Cm("ull", 5)
  /\ arg.kind = "distance"
  /\ arg.d = Cm("ull", 5)
  /\ lhs = Cm("ull", 10)

\* 5 cm + 5 cm is 10 cm and both operands still hold 5 cm.
C29_SumWitness ==
  /\ op = "add"
  /\ lhs = Cm("ull", 5)
  /\ arg.kind = "distance"
  /\ arg.d = Cm("ull", 5)
  /\ res.kind = "distance"
  /\ res.d = Cm("ull", 10)

\* What the call named o adds to the count.
StepOf(o) == IF o \in {"post_inc", "pre_inc"} THEN 1 ELSE 0 - 1

\* The sum of the steps of the calls of the sequence s.
RECURSIVE NetSteps(_)
NetSteps(s) == IF s = <<>> THEN 0 ELSE StepOf(Head(s).o) + NetSteps(Tail(s))

\* No call of the sequence s took a signed count beyond its representation.
NoStepOverflows(s) ==
  \A k \in 1 .. Len(s) :
    IsSigned(s[k].before.repr) =>
      InRange(s[k].before.repr, s[k].before.count + StepOf(s[k].o))

\* C30 as claimed: after any sequence of increments and decrements of a
\* distance with an integer representation its count is the initial count
\* plus the number of increments minus the number of decrements, modulo 2^w
\* when the representation is unsigned; equally many of both restore the
\* initial value, and the scale never changes.
C30_CountsSteps ==
  (op \in StepOps /\ Len(mid) >= 1) =>
    /\ res.kind # "fault"
    /\ lhs.count = IF IsSigned(lhs.repr)
                     THEN mid[1].before.count + NetSteps(mid)
                     ELSE (mid[1].before.count + NetSteps(mid)) % Modulus(lhs.repr)
    /\ NetSteps(mid) = 0 => lhs.count = mid[1].before.count
    /\ TypeOf(lhs) = TypeOf(mid[1].before)

\* C30 with the overflow proviso: the same, for a signed representation
\* provided no increment or decrement of the sequence overflows; the
\* representation and the scale never change.
C30_CountsStepsWhenDefined ==
  (op \in StepOps /\ Len(mid) >= 1) =>
    /\ NoStepOverflows(mid) =>
         /\ res.kind # "fault"
         /\ lhs.count = IF IsSigned(lhs.repr)
                          THEN mid[1].before.count + NetSteps(mid)
                          ELSE (mid[1].before.count + NetSteps(mid)) % Modulus(lhs.repr)
         /\ NetSteps(mid) = 0 => lhs.count = mid[1].before.count
    /\ TypeOf(lhs) = TypeOf(mid[1].before)

\* From 0 cm of an unsigned representation, two decrements and an increment
\* leave 2^w - 1.
C30_Witness ==
  /\ op \in StepOps
  /\ Len(mid) = 3
  /\ mid[1].before = Cm("ull", 0)
  /\ NetSteps(mid) = 0 - 1
  /\ lhs.count = Modulus("ull") - 1

\* Two increments and two decrements, in any order that passes through the
\* greatest count, restore a signed count only where none overflows.
C30_RestoredWitness ==
  /\ op \in StepOps
  /\ Len(mid) = MaxSteps
  /\ NetSteps(mid) = 0
  /\ NoStepOverflows(mid)
  /\ mid[1].before = Cm("int", 40)
  /\ mid[1].o = "post_inc"
  /\ mid[2].o = "pre_inc"
  /\ lhs = Cm("int", 40)

\* The greatest signed count incremented: the count is not the initial count
\* plus one.
C30_OverflowWitness ==
  /\ op \in StepOps
  /\ Len(mid) = 1
  /\ mid[1].before.repr = "int"
  /\ mid[1].before.count = MaxOf("int")
  /\ StepOf(mid[1].o) = 1
  /\ ~NoStepOverflows(mid)

====
